---- MODULE Spec2Model ----
(***************************************************************************)
(* Backtesting core of stock-backtest-backend.                             *)
(*                                                                         *)
(*   BacktestEngine.run / _fetch_data / _generate_all_signals /            *)
(*   _simulate_trading / _save_results      (app/backtester/engine.py)     *)
(*   calculate_trade_statistics   (app/backtester/performance_analyzer.py) *)
(*                                                                         *)
(* Money is counted in whole currency units and prices are whole units,    *)
(* so the float arithmetic of the engine is modelled exactly; the only     *)
(* non-integer value of the simulation, capital_per_buy = cash / n, is     *)
(* kept as the fraction num/den.                                           *)
(*                                                                         *)
(* The calendar loop reads the price frame and the signal frames only at   *)
(* the rows of the current trade_date, and the rows of different dates are *)
(* independent inputs.  The model therefore keeps the set of dates of the  *)
(* frame (which decides DataFrame.empty and the calendar) and draws the    *)
(* price and signal rows of a date when the loop reaches that date.        *)
(***************************************************************************)
EXTENDS Integers, Sequences, FiniteSets, TLC

\* ---------------------------------------------------------------- bounds
NumCodes == 2        \* instruments in the universe of a run
MaxDays == 2         \* dates of the requested window
MaxPrice == 2        \* largest close price
MaxCapital == 3      \* largest initial capital
MaxTrades == 4       \* longest trade list handed to the statistics alone
MaxQty == 2          \* largest quantity in such a trade list

Codes == 1..NumCodes
Dates == 1..MaxDays
NoRow == 0           \* marks a (code, date) pair without a DailyData row

\* close_price values of the DailyData rows
Prices == {1, MaxPrice}

\* self.stock_codes: the universe, an ordered list without duplicates
stock_codes == [i \in 1..NumCodes |-> i]

\* self.initial_capital values a run is started with
InitialCapitals == {0, 1, MaxCapital}

\* the values of the 'signal' column; "none" marks a date without a signal row
Signals == {"buy", "sell", "hold", "none"}

VARIABLES
    stocks,             \* Stock table: the known instrument codes
    daily_dates,        \* trade dates of the DailyData rows of the window
    initial_capital,    \* self.initial_capital
    pc,                 \* position of run() / _simulate_trading()
    all_stocks_dates,   \* all_stocks_data['trade_date'].unique()
    today_rows,         \* code -> close_price of the row of trade_date (NoRow: none)
    signals_generated,  \* _generate_all_signals has been called
    trade_date,         \* loop variable of the calendar loop
    day_signal_row,     \* code -> signal of the row of trade_date in all_signals[code]
    idx,                \* position inside the current pass
    cash, positions, portfolio_history, trades,
    buy_signals_today, capital_per_buy,
    final_value,        \* portfolio_history['total'].iloc[-1]
    trade_statistics,   \* result of calculate_trade_statistics in run()
    result_id,          \* what run() returned: 0 is None
    db_results, db_trades,  \* committed BacktestResult / BacktestTrade rows
    st_trades, st_result,   \* calculate_trade_statistics called on its own
    strategy_table,     \* Strategy table: the identifiers that have a row
    strategies,         \* update_top_strategy_stocks: the strategy identifiers
    potential_codes,    \* the candidate codes, in the order of the query
    top_n, min_trade_count,
    s_idx, c_idx,       \* position of the two loops of the sweep
    completed_tasks,
    top_list,           \* working set of the strategy being swept
    discovered,         \* history: the retained candidates in order of discovery
    top_strategy_stocks,    \* committed TopStrategyStock rows
    job_status, job_message,    \* last 'job_status' event emitted by the sweep
    job_progress,       \* last 'job_progress' event emitted by the sweep
    session,            \* rows added to db.session and not yet committed
    task_id,            \* run_backtest_task: the backtest_id of the call
    pm_history, pm_result,  \* calculate_performance_metrics called on its own
    wl_p, wl_n, wl_score,   \* wilson_lb called on its own
    identifier,         \* BacktestEngine.__init__: strategy_model.identifier
    custom_parameters,  \* BacktestEngine.__init__: the argument of that name
    strategy,           \* BacktestEngine.__init__: self.strategy
    thread,             \* the thread that is running
    parked              \* the frame of the thread that is not running

simvars == <<trade_date, day_signal_row, idx, cash, positions, portfolio_history,
             trades, buy_signals_today, capital_per_buy>>
runvars == <<stocks, daily_dates, initial_capital, all_stocks_dates, today_rows,
             signals_generated, final_value, trade_statistics, result_id,
             db_results, db_trades, session>>
stvars == <<st_trades, st_result>>
sweepvars == <<strategy_table, strategies, potential_codes, top_n, min_trade_count,
               s_idx, c_idx, completed_tasks, top_list, discovered,
               top_strategy_stocks, job_status, job_message, job_progress>>
callvars == <<task_id, thread, parked>>
unitvars == <<pm_history, pm_result, wl_p, wl_n, wl_score, identifier, custom_parameters,
              strategy>>
othervars == <<stvars, sweepvars, callvars, unitvars>>
vars == <<pc, simvars, runvars, othervars>>

\* ------------------------------------------------------------- helpers
RECURSIVE SumSeq(_)
SumSeq(s) == IF s = <<>> THEN 0 ELSE Head(s) + SumSeq(Tail(s))

Last(s) == s[Len(s)]

NoRows == [c \in Codes |-> NoRow]

\* variant: the emptiness test of run() never fires
IsEmptyNever(dates) == FALSE

\* DataFrame.empty
IsEmpty(dates) == dates = {}

\* the frame has a row for code c on the date whose rows are given
HasRow(rows, c) == rows[c] # NoRow

\* variant: the loop walks every date of the window, rows or not
TradingCalendarWindow(dates) == IF dates = {} THEN {} ELSE Dates

\* sorted(all_stocks_data['trade_date'].unique())
TradingCalendar(dates) == dates

\* the dates the calendar loop has still to visit after date d
RemainingDates(dates, d) == {e \in TradingCalendar(dates) : e > d}

Min(S) == CHOOSE x \in S : \A y \in S : x <= y

\* ------------------------------------------------ trade statistics (pure)
ZeroRatio == [inf |-> FALSE, num |-> 0, den |-> 1]
Infinity == [inf |-> TRUE, num |-> 0, den |-> 1]
Ratio(n, d) == [inf |-> FALSE, num |-> n, den |-> d]

Abs(x) == IF x < 0 THEN -x ELSE x

\* variant: pop() takes the newest lot
QueuePopNewest(q) == [item |-> q[Len(q)], rest |-> SubSeq(q, 1, Len(q) - 1)]

\* buy_queues[stock_code].pop(0)
QueuePop(q) == [item |-> Head(q), rest |-> Tail(q)]

\* profit = (trade['price'] - buy_trade['price']) * buy_trade['quantity']
Profit(sell_trade, buy_trade) ==
    (sell_trade.price - buy_trade.price) * buy_trade.quantity

\* the counters before the loop over the trades
StatsStart(codes) ==
    [winning_trades |-> 0, losing_trades |-> 0, total_profit |-> 0, total_loss |-> 0,
     buy_queues |-> [c \in {codes[i] : i \in 1..Len(codes)} |-> <<>>]]

\* one iteration of the loop over the trades
StatsStep(acc, trade) ==
    IF trade.trade_type = "buy"
    THEN [acc EXCEPT !.buy_queues[trade.stock_code] = Append(@, trade)]
    ELSE IF trade.trade_type = "sell" /\ acc.buy_queues[trade.stock_code] # <<>>
    THEN LET popped == QueuePop(acc.buy_queues[trade.stock_code])
             profit == Profit(trade, popped.item)
             acc1 == [acc EXCEPT !.buy_queues[trade.stock_code] = popped.rest]
         IN IF profit > 0
            THEN [acc1 EXCEPT !.winning_trades = @ + 1, !.total_profit = @ + profit]
            ELSE [acc1 EXCEPT !.losing_trades = @ + 1, !.total_loss = @ + Abs(profit)]
    ELSE acc

RECURSIVE StatsLoop(_, _)
StatsLoop(acc, trs) ==
    IF trs = <<>> THEN acc ELSE StatsLoop(StatsStep(acc, Head(trs)), Tail(trs))

\* profit_factor = total_profit / total_loss if total_loss > 0 else float('inf')
ProfitFactor(total_profit, total_loss) ==
    IF total_loss > 0 THEN Ratio(total_profit, total_loss) ELSE Infinity

\* win_rate = winning_trades / total_closed_trades if total_closed_trades > 0 else 0.0
WinRate(winning, total_closed) ==
    IF total_closed > 0 THEN Ratio(winning, total_closed) ELSE ZeroRatio

calculate_trade_statistics(trs, codes) ==
    IF trs = <<>>
    THEN [total_trades |-> 0, winning_trades |-> 0, losing_trades |-> 0,
          win_rate |-> ZeroRatio, profit_factor |-> ZeroRatio]
    ELSE LET acc == StatsLoop(StatsStart(codes), trs)
         IN [total_trades |-> Len(trs),
             winning_trades |-> acc.winning_trades,
             losing_trades |-> acc.losing_trades,
             win_rate |-> WinRate(acc.winning_trades, acc.winning_trades + acc.losing_trades),
             profit_factor |-> ProfitFactor(acc.total_profit, acc.total_loss)]

NoStatistics == [total_trades |-> 0, winning_trades |-> 0, losing_trades |-> 0,
                 win_rate |-> ZeroRatio, profit_factor |-> ZeroRatio]

\* ----------------------------------------------------------- the engine
\* _fetch_data: the rows of the known codes, an empty frame when none is known
FetchData(known, dates) == IF known = {} THEN {} ELSE dates

\* the rows one date of the frame can have: at least one, of known codes only
DayRows(known) ==
    {r \in [Codes -> {NoRow} \cup Prices] :
        /\ \A c \in Codes \ known : r[c] = NoRow
        /\ \E c \in Codes : r[c] # NoRow}

\* the signal rows a strategy can return for one date: a row only where the
\* price frame has one (generate_signals works on a copy of the group), so
\* "none" covers both all_signals.get(code) is None and day_signal_row.empty
DaySignalRows(rows) ==
    {r \in [Codes -> Signals] : \A c \in Codes : ~HasRow(rows, c) => r[c] = "none"}

\* variant: the entry pass runs before the exit pass
PhaseAfterEntryFirst(p) ==
    CASE p = "date" -> "collect"
      [] p = "buy" -> "sell"
      [] p = "sell" -> "snapshot"

\* order of the statements in the body of the calendar loop
PhaseAfter(p) ==
    CASE p = "date" -> "sell"
      [] p = "sell" -> "collect"
      [] p = "buy" -> "snapshot"

\* variant: the amount of a trade is the price of one share
TradeAmountPerShare(price, quantity) == price

\* current_price * quantity
TradeAmount(price, quantity) == price * quantity

\* variant: cash = trade_amount
CashAfterSellAssign(c, trade_amount) == trade_amount

\* cash += trade_amount
CashAfterSell(c, trade_amount) == c + trade_amount

\* variant: a purchase costs one unit more than its amount
CashAfterBuyWithFee(c, trade_amount) == c - trade_amount - 1

\* cash -= trade_amount
CashAfterBuy(c, trade_amount) == c - trade_amount

\* variant: every candidate is allocated the whole cash
CapitalPerBuyWhole(c, n) == [num |-> c, den |-> 1]

\* capital_per_buy = cash / len(buy_signals_today), kept as a fraction
CapitalPerBuy(c, n) == [num |-> c, den |-> n]

\* variant: the quantity is rounded up
BuyQuantityCeil(capital, price) ==
    (capital.num + capital.den * price - 1) \div (capital.den * price)

\* quantity = int(capital_per_buy // current_price)
BuyQuantity(capital, price) == capital.num \div (capital.den * price)

\* the held codes whose price row of the date is missing
HeldWithoutPrice(rows, pos) == {c \in Codes : pos[c] > 0 /\ ~HasRow(rows, c)}

\* variant: the valuation starts from 0 instead of the cash
PortfolioValueNoCash(value, i, rows, pos) ==
    LET held == {c \in Codes : pos[c] > 0}
        PosSeq == [k \in 1..Len(stock_codes) |->
                     IF stock_codes[k] \in held /\ k >= i
                     THEN pos[stock_codes[k]] * rows[stock_codes[k]] ELSE 0]
    IN SumSeq(PosSeq)

RECURSIVE PortfolioValue(_, _, _, _)
\* current_portfolio_value after the loop over stock_codes[i..]
PortfolioValue(value, i, rows, pos) ==
    IF i > Len(stock_codes) THEN value
    ELSE LET c == stock_codes[i]
         IN PortfolioValue(IF pos[c] > 0 THEN value + pos[c] * rows[c] ELSE value,
                           i + 1, rows, pos)

\* nothing is pending in the session
EmptySession == [results |-> {}, trades |-> {}]

\* the frame of a thread that does not exist
NoFrame == [pc |-> "none"]

\* no metric, score or engine construction is being computed on its own
UnitsIdle ==
    /\ pm_history = <<>>
    /\ pm_result = [returned |-> FALSE]
    /\ wl_p = 0
    /\ wl_n = 0
    /\ wl_score = 0
    /\ identifier = "none"
    /\ custom_parameters = [kind |-> "none"]
    /\ strategy = [class |-> "none"]

\* run() is called directly, on one thread
CallersIdle ==
    /\ task_id = 0
    /\ thread = 1
    /\ parked = NoFrame

\* no sweep is under way
SweepIdle ==
    /\ strategy_table = {}
    /\ strategies = <<>>
    /\ potential_codes = <<>>
    /\ top_n = 0
    /\ min_trade_count = 0
    /\ s_idx = 0
    /\ c_idx = 0
    /\ completed_tasks = 0
    /\ top_list = <<>>
    /\ discovered = <<>>
    /\ top_strategy_stocks = {}
    /\ job_status = "none"
    /\ job_message = [event |-> "none"]
    /\ job_progress = [progress |-> 0, total |-> 0]

Init ==
    /\ stocks \in SUBSET Codes
    /\ daily_dates \in SUBSET Dates
    /\ stocks = {} => daily_dates = {}
    /\ initial_capital \in InitialCapitals
    /\ pc = "start"
    /\ all_stocks_dates = {}
    /\ today_rows = NoRows
    /\ signals_generated = FALSE
    /\ trade_date = 0
    /\ day_signal_row = [c \in Codes |-> "none"]
    /\ idx = 1
    /\ cash = 0
    /\ positions = [c \in Codes |-> 0]
    /\ portfolio_history = <<>>
    /\ trades = <<>>
    /\ buy_signals_today = <<>>
    /\ capital_per_buy = CapitalPerBuy(0, 1)
    /\ final_value = 0
    /\ trade_statistics = NoStatistics
    /\ result_id = 0
    /\ db_results = {}
    /\ db_trades = {}
    /\ st_trades = <<>>
    /\ st_result = NoStatistics
    /\ SweepIdle
    /\ session = EmptySession
    /\ CallersIdle
    /\ UnitsIdle

\* run(): all_stocks_data = self._fetch_data()
Run_FetchData ==
    /\ pc = "start"
    /\ all_stocks_dates' = FetchData(stocks, daily_dates)
    /\ pc' = "fetched"
    /\ UNCHANGED <<simvars, othervars, stocks, daily_dates, initial_capital, today_rows,
                   signals_generated, final_value, trade_statistics, result_id,
                   db_results, db_trades, session>>

\* run(): if all_stocks_data.empty: return None
Run_NoData ==
    /\ pc = "fetched"
    /\ IsEmpty(all_stocks_dates)
    /\ result_id' = 0
    /\ pc' = "returned"
    /\ UNCHANGED <<simvars, othervars, stocks, daily_dates, initial_capital, all_stocks_dates,
                   today_rows, signals_generated, final_value, trade_statistics,
                   db_results, db_trades, session>>

\* run(): all_signals = self._generate_all_signals(all_stocks_data)
Run_GenerateSignals ==
    /\ pc = "fetched"
    /\ ~IsEmpty(all_stocks_dates)
    /\ signals_generated' = TRUE
    /\ pc' = "signals"
    /\ UNCHANGED <<simvars, othervars, stocks, daily_dates, initial_capital, all_stocks_dates,
                   today_rows,
                   final_value, trade_statistics, result_id, db_results, db_trades, session>>

\* _simulate_trading: the four initialisations before the calendar loop
Sim_Begin ==
    /\ pc = "signals"
    /\ cash' = initial_capital
    /\ positions' = [c \in Codes |-> 0]
    /\ portfolio_history' = <<>>
    /\ trades' = <<>>
    /\ pc' = "date_loop"
    /\ UNCHANGED <<trade_date, day_signal_row, idx, buy_signals_today, capital_per_buy,
                   runvars, othervars>>

\* head of the calendar loop: the next date, with the signal rows of that date
Sim_NextDate ==
    /\ pc = "date_loop"
    /\ RemainingDates(all_stocks_dates, trade_date) # {}
    /\ trade_date' = Min(RemainingDates(all_stocks_dates, trade_date))
    /\ today_rows' \in DayRows(stocks)
    /\ day_signal_row' \in DaySignalRows(today_rows')
    /\ idx' = 1
    /\ pc' = PhaseAfter("date")
    /\ UNCHANGED <<cash, positions, portfolio_history, trades, buy_signals_today,
                   capital_per_buy, stocks, daily_dates, initial_capital, all_stocks_dates,
                   signals_generated, final_value, trade_statistics, result_id,
                   db_results, db_trades, session, othervars>>

\* the calendar loop is exhausted: return the history and the trades
Sim_End ==
    /\ pc = "date_loop"
    /\ RemainingDates(all_stocks_dates, trade_date) = {}
    /\ pc' = "simulated"
    /\ UNCHANGED <<simvars, runvars, othervars>>

\* variant: the exit pass sells every held code
SellsTodayAnySignal(c) == positions[c] > 0

\* the exit pass sells stock_codes[idx] on this date
SellsToday(c) ==
    /\ positions[c] > 0
    /\ day_signal_row[c] = "sell"

\* next code of the exit pass, or the statement after the pass
ExitAdvance ==
    IF idx < Len(stock_codes)
    THEN idx' = idx + 1 /\ pc' = pc
    ELSE idx' = 1 /\ pc' = PhaseAfter("sell")

\* exit pass, one code: liquidate the whole position at the close
Sim_ExitSell ==
    /\ pc = "sell"
    /\ LET stock_code == stock_codes[idx]
           current_price == today_rows[stock_code]
           quantity_to_sell == positions[stock_code]
           trade_amount == TradeAmount(current_price, quantity_to_sell)
       IN /\ SellsToday(stock_code)
          /\ cash' = CashAfterSell(cash, trade_amount)
          /\ positions' = [positions EXCEPT ![stock_code] = 0]
          /\ trades' = Append(trades,
                [stock_code |-> stock_code, date |-> trade_date, trade_type |-> "sell",
                 price |-> current_price, quantity |-> quantity_to_sell,
                 amount |-> trade_amount, cash_after |-> CashAfterSell(cash, trade_amount)])
    /\ ExitAdvance
    /\ UNCHANGED <<trade_date, day_signal_row, portfolio_history, buy_signals_today,
                   capital_per_buy, runvars, othervars>>

\* exit pass, one code: not held, no signal row, or a signal other than sell
Sim_ExitSkip ==
    /\ pc = "sell"
    /\ ~SellsToday(stock_codes[idx])
    /\ ExitAdvance
    /\ UNCHANGED <<trade_date, day_signal_row, cash, positions, portfolio_history, trades,
                   buy_signals_today, capital_per_buy, runvars, othervars>>

\* variant: a held code is a candidate too
BuysTodayAnyPosition(c) == day_signal_row[c] = "buy"

\* a flat code with a buy signal on this date
BuysToday(c) ==
    /\ positions[c] = 0
    /\ day_signal_row[c] = "buy"

\* entry pass: collect the candidates, then split the cash among them
Sim_CollectBuys ==
    /\ pc = "collect"
    /\ buy_signals_today' = SelectSeq(stock_codes, BuysToday)
    /\ idx' = 1
    /\ IF buy_signals_today' # <<>> /\ cash > 1
       THEN /\ capital_per_buy' = CapitalPerBuy(cash, Len(buy_signals_today'))
            /\ pc' = "buy"
       ELSE /\ capital_per_buy' = capital_per_buy
            /\ pc' = PhaseAfter("buy")
    /\ UNCHANGED <<trade_date, day_signal_row, cash, positions, portfolio_history, trades,
                   runvars, othervars>>

\* next candidate of the entry pass, or the statement after the pass
EntryAdvance ==
    IF idx < Len(buy_signals_today)
    THEN idx' = idx + 1 /\ pc' = pc
    ELSE idx' = 1 /\ pc' = PhaseAfter("buy")

\* entry pass, one candidate with quantity > 0: open the position
Sim_Buy ==
    /\ pc = "buy"
    /\ LET stock_code == buy_signals_today[idx]
           current_price == today_rows[stock_code]
           quantity == BuyQuantity(capital_per_buy, current_price)
           trade_amount == TradeAmount(current_price, quantity)
       IN /\ quantity > 0
          /\ positions' = [positions EXCEPT ![stock_code] = quantity]
          /\ cash' = CashAfterBuy(cash, trade_amount)
          /\ trades' = Append(trades,
                [stock_code |-> stock_code, date |-> trade_date, trade_type |-> "buy",
                 price |-> current_price, quantity |-> quantity,
                 amount |-> trade_amount, cash_after |-> CashAfterBuy(cash, trade_amount)])
    /\ EntryAdvance
    /\ UNCHANGED <<trade_date, day_signal_row, portfolio_history, buy_signals_today,
                   capital_per_buy, runvars, othervars>>

\* entry pass, one candidate whose allocation does not pay for one share
Sim_BuyNothing ==
    /\ pc = "buy"
    /\ LET stock_code == buy_signals_today[idx]
       IN BuyQuantity(capital_per_buy, today_rows[stock_code]) <= 0
    /\ EntryAdvance
    /\ UNCHANGED <<trade_date, day_signal_row, cash, positions, portfolio_history, trades,
                   buy_signals_today, capital_per_buy, runvars, othervars>>

\* end of the date: value the portfolio and append the snapshot
Sim_Snapshot ==
    /\ pc = "snapshot"
    /\ HeldWithoutPrice(today_rows, positions) = {}
    /\ portfolio_history' = Append(portfolio_history,
            [date |-> trade_date,
             total |-> PortfolioValue(cash, 1, today_rows, positions)])
    /\ pc' = "date_loop"
    \* the locals of the loop body are dead once the snapshot is appended
    /\ day_signal_row' = [c \in Codes |-> "none"]
    /\ buy_signals_today' = <<>>
    /\ capital_per_buy' = CapitalPerBuy(0, 1)
    /\ UNCHANGED <<trade_date, idx, cash, positions, trades, runvars, othervars>>

\* end of the date: .iloc[0] on the empty selection of a held code raises
\* IndexError, which nothing in _simulate_trading or run() catches
Sim_SnapshotRaise ==
    /\ pc = "snapshot"
    /\ HeldWithoutPrice(today_rows, positions) # {}
    /\ pc' = "raised"
    /\ UNCHANGED <<simvars, runvars, othervars>>

\* run(): final_value, total_return and the trade statistics
Run_Compute ==
    /\ pc = "simulated"
    /\ IF portfolio_history = <<>>
       THEN /\ pc' = "raised"
            /\ UNCHANGED <<final_value, trade_statistics>>
       ELSE /\ final_value' = Last(portfolio_history).total
            /\ trade_statistics' = calculate_trade_statistics(trades, stock_codes)
            /\ pc' = "computed"
    /\ UNCHANGED <<simvars, othervars, stocks, daily_dates, initial_capital, all_stocks_dates,
                   today_rows, signals_generated, result_id, db_results, db_trades, session>>

\* ids that the flush of the run of another thread has taken
PendingIds == IF parked.pc = "none" THEN 0 ELSE Cardinality(parked.session.results)

\* result.id of the row added by _save_results: the next value of the
\* sequence of the table
NewResultId == Cardinality(db_results) + PendingIds + 1

\* a column that was given no value
Null == [inf |-> FALSE, num |-> 0, den |-> 0]

\* error_message of a row that was given none
NoMessage == "NULL"

\* _save_results: the BacktestResult row; profit_factor is not among the
\* keyword arguments, so the column stays NULL
BacktestResultRow(id, capital, value, metrics, history) ==
    [id |-> id, initial_capital |-> capital,
     final_capital |-> value,
     total_return |-> Ratio(value - capital, capital),
     total_trades |-> metrics.total_trades,
     winning_trades |-> metrics.winning_trades,
     losing_trades |-> metrics.losing_trades,
     win_rate |-> metrics.win_rate,
     profit_factor |-> Null,
     portfolio_history |-> history,
     status |-> "completed",
     error_message |-> NoMessage]

\* _save_results: one BacktestTrade row per trade, in the order of the list
BacktestTradeRows(id, trs) ==
    {[backtest_result_id |-> id, seq |-> i, trade |-> trs[i]] : i \in 1..Len(trs)}

\* variant: a flush that makes the flushed rows durable
DurableAfterFlushAll(pending) == pending

\* db.session.flush(): the INSERT is sent inside the open transaction, no
\* row is durable before the commit
DurableAfterFlush(pending) == {}

\* _save_results: db.session.add(result); db.session.flush()
Save_AddResult ==
    /\ pc = "computed"
    /\ LET row == BacktestResultRow(NewResultId, initial_capital, final_value,
                                    trade_statistics, portfolio_history)
       IN /\ session' = [results |-> {row}, trades |-> {}]
          /\ db_results' = db_results \cup DurableAfterFlush({row})
    /\ pc' = "flushed"
    /\ UNCHANGED <<simvars, othervars, stocks, daily_dates, initial_capital, all_stocks_dates,
                   today_rows, signals_generated, final_value, trade_statistics, result_id,
                   db_trades>>

\* _save_results: the flush raises (the database refuses the INSERT); the
\* row stays pending in the session and the exception leaves run()
Save_FlushRaises ==
    /\ pc = "computed"
    /\ session' = [results |-> {BacktestResultRow(NewResultId, initial_capital, final_value,
                                                  trade_statistics, portfolio_history)},
                   trades |-> {}]
    /\ pc' = "raised"
    /\ UNCHANGED <<simvars, othervars, stocks, daily_dates, initial_capital, all_stocks_dates,
                   today_rows, signals_generated, final_value, trade_statistics, result_id,
                   db_results, db_trades>>

\* the id of the row that _save_results flushed
FlushedId == (CHOOSE r \in session.results : TRUE).id

\* _save_results: one BacktestTrade per trade is added, db.session.commit()
\* makes the result and its trades durable together, result.id is returned
Run_SaveResults ==
    /\ pc = "flushed"
    /\ db_results' = db_results \cup session.results
    /\ db_trades' = db_trades \cup BacktestTradeRows(FlushedId, trades)
    /\ session' = EmptySession
    /\ result_id' = FlushedId
    /\ pc' = "returned"
    /\ UNCHANGED <<simvars, othervars, stocks, daily_dates, initial_capital, all_stocks_dates,
                   today_rows, signals_generated, final_value, trade_statistics>>

\* _save_results: the commit raises; the result and the trades stay pending
\* in the session and the exception leaves run()
Save_CommitRaises ==
    /\ pc = "flushed"
    /\ session' = [session EXCEPT !.trades = BacktestTradeRows(FlushedId, trades)]
    /\ pc' = "raised"
    /\ UNCHANGED <<simvars, othervars, stocks, daily_dates, initial_capital, all_stocks_dates,
                   today_rows, signals_generated, final_value, trade_statistics, result_id,
                   db_results, db_trades>>

\* the caller of run() catches the exception and rolls the session back
Caller_Rollback ==
    /\ pc = "raised"
    /\ session # EmptySession
    /\ session' = EmptySession
    /\ UNCHANGED <<pc, simvars, othervars, stocks, daily_dates, initial_capital,
                   all_stocks_dates, today_rows, signals_generated, final_value,
                   trade_statistics, result_id, db_results, db_trades>>

Next ==
    \/ Run_FetchData
    \/ Run_NoData
    \/ Run_GenerateSignals
    \/ Sim_Begin
    \/ Sim_NextDate
    \/ Sim_End
    \/ Sim_ExitSell
    \/ Sim_ExitSkip
    \/ Sim_CollectBuys
    \/ Sim_Buy
    \/ Sim_BuyNothing
    \/ Sim_Snapshot
    \/ Sim_SnapshotRaise
    \/ Run_Compute
    \/ Save_AddResult
    \/ Save_FlushRaises
    \/ Run_SaveResults
    \/ Save_CommitRaises
    \/ Caller_Rollback

Spec == Init /\ [][Next]_vars

\* the runs over the whole window, or over a window without rows, of a
\* universe of which the first and the last code are known
InitSim ==
    /\ Init
    /\ stocks = {1, NumCodes}
    /\ daily_dates \in {{}, Dates}

SpecSim == InitSim /\ [][Next]_vars

\* ------------------------------- calculate_trade_statistics on any list
\* the trade records of a list: codes of the universe, both types
StatTrades ==
    {[stock_code |-> c, date |-> 1, trade_type |-> t, price |-> p, quantity |-> q,
      amount |-> p * q, cash_after |-> 0] :
        c \in {1, NumCodes}, t \in {"buy", "sell"}, p \in Prices, q \in {1, MaxQty}}

InitStats ==
    /\ \E n \in 0..MaxTrades : st_trades \in [1..n -> StatTrades]
    /\ st_result = NoStatistics
    /\ pc = "stats_call"
    /\ stocks = {}
    /\ daily_dates = {}
    /\ initial_capital = 0
    /\ all_stocks_dates = {}
    /\ today_rows = NoRows
    /\ signals_generated = FALSE
    /\ trade_date = 0
    /\ day_signal_row = [c \in Codes |-> "none"]
    /\ idx = 1
    /\ cash = 0
    /\ positions = [c \in Codes |-> 0]
    /\ portfolio_history = <<>>
    /\ trades = <<>>
    /\ buy_signals_today = <<>>
    /\ capital_per_buy = CapitalPerBuy(0, 1)
    /\ final_value = 0
    /\ trade_statistics = NoStatistics
    /\ result_id = 0
    /\ db_results = {}
    /\ db_trades = {}
    /\ SweepIdle
    /\ session = EmptySession
    /\ CallersIdle
    /\ UnitsIdle

\* calculate_trade_statistics(trades, stock_codes)
Stats_Call ==
    /\ pc = "stats_call"
    /\ st_result' = calculate_trade_statistics(st_trades, stock_codes)
    /\ pc' = "stats_done"
    /\ UNCHANGED <<st_trades, simvars, runvars, sweepvars, callvars, unitvars>>

NextStats == Stats_Call

SpecStats == InitStats /\ [][NextStats]_vars

\* ------------------------------- update_top_strategy_stocks (the sweep)
NumStrategies == 2       \* strategy identifiers handed to a sweep
NumCandidates == 3       \* candidate codes of a sweep
MaxTopN == 2             \* largest top_n
MaxMinTradeCount == 3    \* largest min_trade_count
MaxRoundTrips == 2       \* most buy/sell round trips of one candidate's run
ScoreScale == 1000       \* scores are compared to this many parts of one

\* z = 1.96 = ZNum / ZDen
ZNum == 49
ZDen == 25

\* win_rate is a Numeric(5, 2) column: hundredths
WinRateScale == 100

\* a 'job_progress' event is emitted every ProgressEvery tasks
ProgressEvery == 10

StrategyIds == 1..NumStrategies
TopNs == {0, 1, MaxTopN}
MinTradeCounts == {1, MaxMinTradeCount}

\* no engine run is under way
EngineIdle ==
    /\ stocks = {}
    /\ daily_dates = {}
    /\ all_stocks_dates = {}
    /\ today_rows = NoRows
    /\ signals_generated = FALSE
    /\ trade_date = 0
    /\ day_signal_row = [c \in Codes |-> "none"]
    /\ idx = 1
    /\ cash = 0
    /\ positions = [c \in Codes |-> 0]
    /\ portfolio_history = <<>>
    /\ trades = <<>>
    /\ buy_signals_today = <<>>
    /\ capital_per_buy = CapitalPerBuy(0, 1)
    /\ final_value = 0
    /\ trade_statistics = NoStatistics
    /\ result_id = 0

\* calculate_trade_statistics is not being called on its own
StatsIdle ==
    /\ st_trades = <<>>
    /\ st_result = NoStatistics

\* math.sqrt, rounded down to a whole number
RECURSIVE ISqrtIn(_, _, _)
ISqrtIn(n, lo, hi) ==
    IF lo = hi THEN lo
    ELSE LET mid == (lo + hi + 1) \div 2
         IN IF mid * mid <= n THEN ISqrtIn(n, mid, hi) ELSE ISqrtIn(n, lo, mid - 1)

ISqrt(n) == ISqrtIn(n, 0, IF n < 46340 THEN n ELSE 46340)

\* float(result.win_rate): the fraction as stored in the column, in hundredths
ColumnWinRate(r) == (2 * WinRateScale * r.num + r.den) \div (2 * r.den)

\* wilson_lb(p, n, z=1.96) with p in hundredths; the value in parts of
\* ScoreScale.  Numerator and denominator of the source's quotient are both
\* multiplied by 2 * n * WinRateScale * ZDen^2.
wilson_lb(p, n) ==
    IF n = 0 THEN 0
    ELSE LET m == WinRateScale
             root == ISqrt(4 * n * p * (m - p) * ZDen * ZDen + ZNum * ZNum * m * m)
         IN ((2 * n * p * ZDen * ZDen + ZNum * ZNum * m - ZNum * root) * ScoreScale)
               \div (2 * m * (n * ZDen * ZDen + ZNum * ZNum))

\* expectancy = float(result.total_return) / trade_count
Expectancy(total_return, trade_count) ==
    IF trade_count > 0 /\ total_return # Null
    THEN Ratio(total_return.num, total_return.den * trade_count)
    ELSE ZeroRatio

\* float(result.profit_factor) if result.profit_factor else None
EntryProfitFactor(result) ==
    IF result.profit_factor = Null \/ result.profit_factor = ZeroRatio
    THEN Null
    ELSE result.profit_factor

\* The run of one candidate, engine.run() with stock_codes=[code], seen from
\* the sweep: it raises, it returns None, or it commits a result.  A
\* committed run is described by its round trips (TRUE: bought at the lowest
\* price and sold at the highest, FALSE: the reverse), every entry taking
\* all the cash as _simulate_trading does for a single code.
RunTrips ==
    {<<>>, <<TRUE>>, <<FALSE>>, <<TRUE, FALSE>>,
     [i \in 1..MaxRoundTrips |-> TRUE], [i \in 1..MaxRoundTrips |-> FALSE]}

RunOutcomes ==
    {[kind |-> "raise", trips |-> <<>>], [kind |-> "none", trips |-> <<>>]}
        \cup {[kind |-> "saved", trips |-> t] : t \in RunTrips}

\* the outcomes of a sweep over several strategies
PlainOutcomes ==
    {[kind |-> "raise", trips |-> <<>>],
     [kind |-> "saved", trips |-> [i \in 1..MaxRoundTrips |-> TRUE]]}

\* _simulate_trading for the single code: cash and trades after the trips
RECURSIVE SoloRun(_, _, _, _)
SoloRun(code, trips, c, trs) ==
    IF trips = <<>> THEN [cash |-> c, trades |-> trs]
    ELSE LET buy_price == IF Head(trips) THEN 1 ELSE MaxPrice
             sell_price == IF Head(trips) THEN MaxPrice ELSE 1
             quantity == BuyQuantity(CapitalPerBuy(c, 1), buy_price)
             after_buy == CashAfterBuy(c, TradeAmount(buy_price, quantity))
             after_sell == CashAfterSell(after_buy, TradeAmount(sell_price, quantity))
             buy == [stock_code |-> code, date |-> Len(trs) + 1, trade_type |-> "buy",
                     price |-> buy_price, quantity |-> quantity,
                     amount |-> TradeAmount(buy_price, quantity),
                     cash_after |-> after_buy]
             sell == [stock_code |-> code, date |-> Len(trs) + 2, trade_type |-> "sell",
                      price |-> sell_price, quantity |-> quantity,
                      amount |-> TradeAmount(sell_price, quantity),
                      cash_after |-> after_sell]
         IN IF c > 1 /\ quantity > 0
            THEN SoloRun(code, Tail(trips), after_sell, trs \o <<buy, sell>>)
            ELSE SoloRun(code, Tail(trips), c, trs)

\* the row that run() commits for the candidate
RunResult(id, code, trips, capital) ==
    LET run == SoloRun(code, trips, capital, <<>>)
    IN BacktestResultRow(id, capital, run.cash,
                         calculate_trade_statistics(run.trades, <<code>>),
                         <<[date |-> Len(run.trades), total |-> run.cash]>>)

\* the dict appended to top_list
TopEntry(code, result) ==
    LET trade_count == result.total_trades
        win_rate_lb == wilson_lb(ColumnWinRate(result.win_rate), trade_count)
    IN [code |-> code, score |-> win_rate_lb, result |-> result,
        trade_count |-> trade_count, win_rate_lb |-> win_rate_lb,
        expectancy |-> Expectancy(result.total_return, trade_count),
        profit_factor |-> EntryProfitFactor(result)]

\* variant: the newest member is taken for the minimum
MinEntryIndexLast(list) == Len(list)

\* min(top_list, key=lambda x: x['score']): the first of the entries with
\* the least score
MinEntryIndex(list) ==
    CHOOSE i \in 1..Len(list) :
        /\ \A j \in 1..Len(list) : list[i].score <= list[j].score
        /\ \A j \in 1..(i - 1) : list[j].score > list[i].score

\* variant: a tie replaces the minimum as well
ScoreBeatsOrTies(score, min_score) == score >= min_score

\* if score > min_entry['score']
ScoreBeats(score, min_score) == score > min_score

RemoveAt(list, i) == SubSeq(list, 1, i - 1) \o SubSeq(list, i + 1, Len(list))

\* if len(top_list) < top_n
HasRoom(list, n) == Len(list) < n

\* the if/else that maintains top_list, for a list that is not empty when
\* it is full
WorkingSetAfter(list, n, entry) ==
    IF HasRoom(list, n)
    THEN Append(list, entry)
    ELSE LET i == MinEntryIndex(list)
         IN IF ScoreBeats(entry.score, list[i].score)
            THEN Append(RemoveAt(list, i), entry)
            ELSE list

\* variant: no trade count is too small
TooFewTradesNever(trade_count, least) == FALSE

\* if trade_count < min_trade_count: continue
TooFewTrades(trade_count, least) == trade_count < least

\* variant: ascending order
SortsBeforeAscending(a, b) == a.score < b.score

\* a must stand before b in the sorted list whatever their order was
SortsBefore(a, b) == a.score > b.score

\* one insertion of the stable sort: after every entry that need not follow it
RECURSIVE SortedInsert(_, _)
SortedInsert(sorted, e) ==
    IF sorted = <<>> THEN <<e>>
    ELSE IF SortsBefore(e, Head(sorted))
         THEN <<e>> \o sorted
         ELSE <<Head(sorted)>> \o SortedInsert(Tail(sorted), e)

\* top_list.sort(key=lambda x: x['score'], reverse=True)
RECURSIVE SortByScore(_)
SortByScore(list) ==
    IF list = <<>> THEN <<>>
    ELSE SortedInsert(SortByScore(SubSeq(list, 1, Len(list) - 1)), list[Len(list)])

\* enumerate(top_list, 1)
FirstRank == 1

\* the TopStrategyStock row of the entry at position i of the sorted list
TopStockRow(strategy_id, list, i, analysed) ==
    [strategy_id |-> strategy_id, stock_code |-> list[i].code,
     win_rate |-> list[i].result.win_rate,
     total_return |-> list[i].result.total_return,
     backtest_result_id |-> list[i].result.id,
     rank |-> FirstRank + i - 1,
     trade_count |-> list[i].trade_count,
     win_rate_lb |-> list[i].win_rate_lb,
     expectancy |-> list[i].expectancy,
     profit_factor |-> list[i].profit_factor,
     analysed |-> analysed]

\* the trades that run() commits for the candidate
RunTrades(code, trips, capital) == SoloRun(code, trips, capital, <<>>).trades

\* a TopStrategyStock row left by an earlier sweep
StaleRow(strategy_id) ==
    [strategy_id |-> strategy_id, stock_code |-> NumCandidates,
     win_rate |-> ZeroRatio, total_return |-> ZeroRatio, backtest_result_id |-> 0,
     rank |-> FirstRank, trade_count |-> MaxMinTradeCount, win_rate_lb |-> 0,
     expectancy |-> ZeroRatio, profit_factor |-> Null, analysed |-> FALSE]

\* the state in which update_top_strategy_stocks is entered
InitJob ==
    /\ pc = "sweep_start"
    /\ EngineIdle
    /\ StatsIdle
    /\ initial_capital = MaxCapital
    /\ db_results = {}
    /\ db_trades = {}
    /\ session = EmptySession
    /\ CallersIdle
    /\ UnitsIdle
    /\ strategy_table \in SUBSET StrategyIds
    /\ \E n \in {0, NumCandidates} : potential_codes = [i \in 1..n |-> i]
    /\ min_trade_count \in MinTradeCounts
    /\ \E stale \in SUBSET strategy_table :
          top_strategy_stocks = {StaleRow(sid) : sid \in stale}
    /\ s_idx = 0
    /\ c_idx = 0
    /\ completed_tasks = 0
    /\ top_list = <<>>
    /\ discovered = <<>>
    /\ job_status = "none"
    /\ job_message = [event |-> "none"]
    /\ job_progress = [progress |-> 0, total |-> 0]

\* a sweep of one strategy
InitRank ==
    /\ InitJob
    /\ strategies = <<1>>
    /\ strategy_table \subseteq {1}
    /\ top_n \in TopNs

\* a sweep of NumStrategies strategies
InitSweep ==
    /\ InitJob
    /\ strategies = [i \in 1..NumStrategies |-> i]
    /\ top_n = 1

total_tasks == Len(strategies) * Len(potential_codes)

\* the 'started' event, the candidate list and the first progress event
Sweep_Begin ==
    /\ pc = "sweep_start"
    /\ IF potential_codes = <<>>
       THEN /\ job_status' = "completed"
            /\ job_message' = [event |-> "no_candidates"]
            /\ pc' = "sweep_done"
            /\ UNCHANGED <<job_progress, s_idx>>
       ELSE /\ job_status' = "started"
            /\ job_progress' = [progress |-> 0, total |-> total_tasks]
            /\ s_idx' = 1
            /\ pc' = "sweep_strategy"
            /\ UNCHANGED job_message
    /\ UNCHANGED <<simvars, runvars, stvars, callvars, unitvars, strategy_table, strategies, potential_codes,
                   top_n, min_trade_count, c_idx, completed_tasks, top_list, discovered,
                   top_strategy_stocks>>

\* if not strat_model: the tasks of the strategy count as completed
Sweep_StrategyMissing ==
    /\ pc = "sweep_strategy"
    /\ s_idx <= Len(strategies)
    /\ strategies[s_idx] \notin strategy_table
    /\ completed_tasks' = completed_tasks + Len(potential_codes)
    /\ s_idx' = s_idx + 1
    /\ UNCHANGED <<pc, simvars, runvars, stvars, callvars, unitvars, strategy_table, strategies,
                   potential_codes, top_n, min_trade_count, c_idx, top_list, discovered,
                   top_strategy_stocks, job_status, job_message, job_progress>>

\* the old rows of the strategy are deleted and the deletion committed
Sweep_StrategyBegin ==
    /\ pc = "sweep_strategy"
    /\ s_idx <= Len(strategies)
    /\ strategies[s_idx] \in strategy_table
    /\ top_strategy_stocks' =
          {r \in top_strategy_stocks : r.strategy_id # strategies[s_idx]}
    /\ top_list' = <<>>
    /\ c_idx' = 1
    /\ pc' = "sweep_code"
    /\ UNCHANGED <<simvars, runvars, stvars, callvars, unitvars, strategy_table, strategies, potential_codes,
                   top_n, min_trade_count, s_idx, completed_tasks, discovered,
                   job_status, job_message, job_progress>>

\* the commit of the deletion raises: the handler around the whole sweep
\* rolls back and emits 'failed'
Sweep_CommitRaises ==
    /\ pc = "sweep_strategy"
    /\ s_idx <= Len(strategies)
    /\ strategies[s_idx] \in strategy_table
    /\ job_status' = "failed"
    /\ job_message' = [event |-> "failed"]
    /\ pc' = "sweep_done"
    /\ UNCHANGED <<simvars, runvars, stvars, callvars, unitvars, strategy_table, strategies, potential_codes,
                   top_n, min_trade_count, s_idx, c_idx, completed_tasks, top_list,
                   discovered, top_strategy_stocks, job_progress>>

\* variant: the exception reaches the handler around the whole sweep
OnCandidateErrorAbort == "abort"

\* except Exception: log, rollback, continue
OnCandidateError == "continue"

\* the body of the loop over the candidates, for one candidate: the run and
\* what the sweep does with its result
Sweep_Candidate(outcomes) ==
    /\ pc = "sweep_code"
    /\ c_idx <= Len(potential_codes)
    /\ completed_tasks' = completed_tasks + 1
    /\ job_progress' = IF completed_tasks' % ProgressEvery = 0
                       THEN [progress |-> completed_tasks', total |-> total_tasks]
                       ELSE job_progress
    /\ \E o \in outcomes :
         LET code == potential_codes[c_idx]
             result == RunResult(NewResultId, code, o.trips, initial_capital)
             entry == TopEntry(code, result)
             committed == o.kind = "saved"
             raised == \/ o.kind = "raise"
                       \/ /\ committed
                          /\ ~TooFewTrades(entry.trade_count, min_trade_count)
                          /\ ~HasRoom(top_list, top_n)
                          /\ top_list = <<>>      \* min() of an empty list
             retained == /\ committed
                         /\ ~raised
                         /\ ~TooFewTrades(entry.trade_count, min_trade_count)
         IN /\ IF committed
               THEN /\ db_results' = db_results \cup {result}
                    /\ db_trades' = db_trades \cup
                          BacktestTradeRows(NewResultId,
                                            RunTrades(code, o.trips, initial_capital))
               ELSE UNCHANGED <<db_results, db_trades, session>>
            /\ IF retained
               THEN /\ top_list' = WorkingSetAfter(top_list, top_n, entry)
                    /\ discovered' = Append(discovered,
                          [strategy |-> strategies[s_idx], code |-> code,
                           score |-> entry.score, win_rate |-> result.win_rate,
                           trade_count |-> entry.trade_count])
               ELSE UNCHANGED <<top_list, discovered>>
            /\ IF raised /\ OnCandidateError = "abort"
               THEN /\ job_status' = "failed"
                    /\ job_message' = [event |-> "failed"]
                    /\ pc' = "sweep_done"
                    /\ UNCHANGED c_idx
               ELSE /\ c_idx' = c_idx + 1
                    /\ UNCHANGED <<pc, job_status, job_message>>
    /\ UNCHANGED <<simvars, stvars, callvars, unitvars, session, stocks, daily_dates,
                   initial_capital, all_stocks_dates, today_rows, signals_generated,
                   final_value, trade_statistics, result_id, strategy_table, strategies,
                   potential_codes, top_n, min_trade_count, s_idx, top_strategy_stocks>>

\* variant: the table has no constraint on the ranks of a strategy
RankConflictNever(rows, new) == FALSE

\* UniqueConstraint('strategy_id', 'rank'): a new row has the strategy and
\* the rank of a row of the table
RankConflict(rows, new) ==
    \E r \in rows : \E n \in new : r.strategy_id = n.strategy_id /\ r.rank = n.rank

\* after the last candidate: sort, one row per entry, commit, then the
\* analysis of the stored rows, which fills its own columns or fails alone
Sweep_Store ==
    /\ pc = "sweep_code"
    /\ c_idx > Len(potential_codes)
    /\ top_list' = SortByScore(top_list)
    /\ \E analysed \in (IF top_list = <<>> THEN {FALSE} ELSE BOOLEAN) :
          LET rows == {TopStockRow(strategies[s_idx], top_list', i, analysed) :
                          i \in 1..Len(top_list')}
          IN /\ ~RankConflict(top_strategy_stocks, rows)
             /\ top_strategy_stocks' = top_strategy_stocks \cup rows
    /\ s_idx' = s_idx + 1
    /\ pc' = "sweep_strategy"
    /\ UNCHANGED <<simvars, runvars, stvars, callvars, unitvars, strategy_table, strategies, potential_codes,
                   top_n, min_trade_count, c_idx, completed_tasks, discovered,
                   job_status, job_message, job_progress>>

\* after the last candidate, with a row of the strategy and of one of the
\* new ranks in the table: the insert violates the constraint, the
\* transaction of the new rows is undone, and the handler around the whole
\* sweep emits 'failed'
Sweep_StoreConflict ==
    /\ pc = "sweep_code"
    /\ c_idx > Len(potential_codes)
    /\ top_list' = SortByScore(top_list)
    /\ RankConflict(top_strategy_stocks,
                    {TopStockRow(strategies[s_idx], top_list', i, FALSE) :
                        i \in 1..Len(top_list')})
    /\ job_status' = "failed"
    /\ job_message' = [event |-> "failed"]
    /\ pc' = "sweep_done"
    /\ UNCHANGED <<simvars, runvars, stvars, callvars, unitvars, strategy_table, strategies, potential_codes,
                   top_n, min_trade_count, s_idx, c_idx, completed_tasks, discovered,
                   top_strategy_stocks, job_progress>>

\* after the last strategy: the 'completed' event with its message
Sweep_Finish ==
    /\ pc = "sweep_strategy"
    /\ s_idx > Len(strategies)
    /\ job_status' = "completed"
    /\ job_message' = [event |-> "completed", strategies |-> Len(strategies),
                       top_n |-> top_n]
    /\ pc' = "sweep_done"
    /\ UNCHANGED <<simvars, runvars, stvars, callvars, unitvars, strategy_table, strategies, potential_codes,
                   top_n, min_trade_count, s_idx, c_idx, completed_tasks, top_list,
                   discovered, top_strategy_stocks, job_progress>>

NextRank ==
    \/ Sweep_Begin
    \/ Sweep_StrategyMissing
    \/ Sweep_StrategyBegin
    \/ Sweep_CommitRaises
    \/ Sweep_Candidate(RunOutcomes)
    \/ Sweep_Store
    \/ Sweep_Finish

SpecRank == InitRank /\ [][NextRank]_vars

NextSweep ==
    \/ Sweep_Begin
    \/ Sweep_StrategyMissing
    \/ Sweep_StrategyBegin
    \/ Sweep_CommitRaises
    \/ Sweep_Candidate(PlainOutcomes)
    \/ Sweep_Store
    \/ Sweep_Finish

SpecSweep == InitSweep /\ [][NextSweep]_vars

\* ------------------------------ two sweeps at once (scheduler and API)
\* what a thread that runs update_top_strategy_stocks has of its own
SweepFrame ==
    [pc |-> pc, s_idx |-> s_idx, c_idx |-> c_idx, completed_tasks |-> completed_tasks,
     top_list |-> top_list, discovered |-> discovered, job_status |-> job_status,
     job_message |-> job_message, job_progress |-> job_progress, session |-> session]

\* the frame of a thread that run_job_in_background has just started
NewSweepFrame ==
    [pc |-> "sweep_start", s_idx |-> 0, c_idx |-> 0, completed_tasks |-> 0,
     top_list |-> <<>>, discovered |-> <<>>, job_status |-> "none",
     job_message |-> [event |-> "none"], job_progress |-> [progress |-> 0, total |-> 0],
     session |-> EmptySession]

\* the scheduled sweep of one strategy over all candidates; the table may
\* hold a row of an earlier sweep
InitTwoSweeps ==
    /\ InitJob
    /\ strategies = <<1>>
    /\ strategy_table = {1}
    /\ potential_codes # <<>>
    /\ top_n = MaxTopN
    /\ min_trade_count = 1

\* the other thread runs: the one started by the API when it has not run
\* yet; the tables are shared, the locals of the sweep are not
Sweep_Switch ==
    /\ thread' = 3 - thread
    /\ parked' = SweepFrame
    /\ LET f == IF parked = NoFrame THEN NewSweepFrame ELSE parked
       IN /\ pc' = f.pc
          /\ s_idx' = f.s_idx
          /\ c_idx' = f.c_idx
          /\ completed_tasks' = f.completed_tasks
          /\ top_list' = f.top_list
          /\ discovered' = f.discovered
          /\ job_status' = f.job_status
          /\ job_message' = f.job_message
          /\ job_progress' = f.job_progress
          /\ session' = f.session
    /\ UNCHANGED <<simvars, stvars, unitvars, task_id, stocks, daily_dates, initial_capital,
                   all_stocks_dates, today_rows, signals_generated, final_value,
                   trade_statistics, result_id, db_results, db_trades, strategy_table,
                   strategies, potential_codes, top_n, min_trade_count, top_strategy_stocks>>

NextTwoSweeps ==
    \/ Sweep_Begin
    \/ Sweep_StrategyBegin
    \/ Sweep_CommitRaises
    \/ Sweep_Candidate(PlainOutcomes)
    \/ Sweep_Store
    \/ Sweep_StoreConflict
    \/ Sweep_Finish
    \/ Sweep_Switch

SpecTwoSweeps == InitTwoSweeps /\ [][NextTwoSweeps]_vars

\* --------------------------------------------------- run_backtest_task
MaxResults == 3          \* most BacktestResult rows

\* a row inserted for a run that is still to be executed: no status is
\* given, so the default of the column applies, and the result columns are
\* NULL (0 in the whole-number columns)
PendingRow(id) ==
    [BacktestResultRow(id, MaxCapital, 0, NoStatistics, <<>>)
        EXCEPT !.status = "running", !.total_return = Null, !.win_rate = Null]

\* the parameters of BacktestEngine.__init__
EngineParameters ==
    {"strategy_id", "start_date", "end_date", "initial_capital", "stock_codes",
     "custom_parameters"}

\* the keyword arguments with which run_backtest_task constructs the engine
TaskArguments ==
    {"strategy_id", "start_date", "end_date", "initial_capital", "stock_codes",
     "custom_parameters", "backtest_result_id"}

\* a call with a keyword that is no parameter raises TypeError
ConstructorAccepts(arguments) == arguments \subseteq EngineParameters

\* the row with the given id, as a set (empty: db.session.get returns None)
ResultsWithId(id) == {r \in db_results : r.id = id}

\* the table after the columns of the row with the given id are set
SetStatus(id, status, message) ==
    {IF r.id = id THEN [r EXCEPT !.status = status, !.error_message = message] ELSE r :
        r \in db_results}

InitTask ==
    /\ pc = "task_idle"
    /\ EngineIdle
    /\ StatsIdle
    /\ SweepIdle
    /\ initial_capital = MaxCapital
    /\ \E n \in 0..MaxResults : db_results = {PendingRow(i) : i \in 1..n}
    /\ db_trades = {}
    /\ session = EmptySession
    /\ CallersIdle
    /\ UnitsIdle

\* a run through POST /backtest or a sweep: run() commits a completed row
Api_Run ==
    /\ pc = "task_idle"
    /\ Cardinality(db_results) < MaxResults
    /\ \E trips \in {<<>>, <<TRUE>>} :
          /\ db_results' = db_results \cup
                {RunResult(NewResultId, 1, trips, initial_capital)}
          /\ db_trades' = db_trades \cup
                BacktestTradeRows(NewResultId, RunTrades(1, trips, initial_capital))
    /\ UNCHANGED <<pc, simvars, othervars, session, stocks, daily_dates, initial_capital,
                   all_stocks_dates, today_rows, signals_generated, final_value,
                   trade_statistics, result_id>>

\* run_backtest_task(backtest_id): no row with that id, the task returns
Task_NotFound ==
    /\ pc = "task_idle"
    /\ \E id \in 1..(MaxResults + 1) :
          /\ ResultsWithId(id) = {}
          /\ task_id' = id
    /\ UNCHANGED <<pc, simvars, runvars, stvars, sweepvars, thread, parked, unitvars>>

\* run_backtest_task(backtest_id): the row is marked running and committed
Task_Start ==
    /\ pc = "task_idle"
    /\ \E id \in 1..(MaxResults + 1) :
          /\ ResultsWithId(id) # {}
          /\ task_id' = id
          /\ db_results' = SetStatus(id, "running", (CHOOSE r \in ResultsWithId(id) : TRUE).error_message)
    /\ pc' = "task_started"
    /\ UNCHANGED <<simvars, stvars, sweepvars, thread, parked, unitvars, session, db_trades, stocks,
                   daily_dates, initial_capital, all_stocks_dates, today_rows,
                   signals_generated, final_value, trade_statistics, result_id>>

\* the construction of the engine raises TypeError inside the try: the
\* handler marks the row failed with the message and commits
Task_ConstructRaises ==
    /\ pc = "task_started"
    /\ ~ConstructorAccepts(TaskArguments)
    /\ db_results' = SetStatus(task_id, "failed", "TypeError")
    /\ pc' = "task_idle"
    /\ UNCHANGED <<simvars, othervars, session, db_trades, stocks, daily_dates,
                   initial_capital, all_stocks_dates, today_rows, signals_generated,
                   final_value, trade_statistics, result_id>>

NextTask ==
    \/ Api_Run
    \/ Task_NotFound
    \/ Task_Start
    \/ Task_ConstructRaises

SpecTask == InitTask /\ [][NextTask]_vars

\* ------------------------------------------- runs on several threads
\* the state of the run of the running thread: the attributes of its
\* engine, the locals of run() and _simulate_trading, its scoped session
Frame ==
    [pc |-> pc, initial_capital |-> initial_capital,
     all_stocks_dates |-> all_stocks_dates, today_rows |-> today_rows,
     signals_generated |-> signals_generated, trade_date |-> trade_date,
     day_signal_row |-> day_signal_row, idx |-> idx, cash |-> cash,
     positions |-> positions, portfolio_history |-> portfolio_history,
     trades |-> trades, buy_signals_today |-> buy_signals_today,
     capital_per_buy |-> capital_per_buy, final_value |-> final_value,
     trade_statistics |-> trade_statistics, result_id |-> result_id,
     session |-> session]

\* variant: cash is one location that all runs read and write
ResumeCashShared(frame, running_cash) == running_cash

\* cash is a local of the call of _simulate_trading: a run that resumes
\* finds the value it left
ResumeCash(frame, running_cash) == frame.cash

\* two threads, each about to call run() on an engine of its own; the
\* capitals differ
InitThreads ==
    /\ stocks = {1}
    /\ daily_dates \in {{}, {1, MaxDays}}
    /\ initial_capital = MaxCapital
    /\ pc = "start"
    /\ all_stocks_dates = {}
    /\ today_rows = NoRows
    /\ signals_generated = FALSE
    /\ trade_date = 0
    /\ day_signal_row = [c \in Codes |-> "none"]
    /\ idx = 1
    /\ cash = 0
    /\ positions = [c \in Codes |-> 0]
    /\ portfolio_history = <<>>
    /\ trades = <<>>
    /\ buy_signals_today = <<>>
    /\ capital_per_buy = CapitalPerBuy(0, 1)
    /\ final_value = 0
    /\ trade_statistics = NoStatistics
    /\ result_id = 0
    /\ db_results = {}
    /\ db_trades = {}
    /\ session = EmptySession
    /\ StatsIdle
    /\ SweepIdle
    /\ task_id = 0
    /\ UnitsIdle
    /\ thread = 1
    /\ parked = [Frame EXCEPT !.initial_capital = MaxCapital - 1]

\* the interpreter suspends the running thread and resumes the other one
Thread_Switch ==
    /\ thread' = 3 - thread
    /\ parked' = Frame
    /\ pc' = parked.pc
    /\ initial_capital' = parked.initial_capital
    /\ all_stocks_dates' = parked.all_stocks_dates
    /\ today_rows' = parked.today_rows
    /\ signals_generated' = parked.signals_generated
    /\ trade_date' = parked.trade_date
    /\ day_signal_row' = parked.day_signal_row
    /\ idx' = parked.idx
    /\ cash' = ResumeCash(parked, cash)
    /\ positions' = parked.positions
    /\ portfolio_history' = parked.portfolio_history
    /\ trades' = parked.trades
    /\ buy_signals_today' = parked.buy_signals_today
    /\ capital_per_buy' = parked.capital_per_buy
    /\ final_value' = parked.final_value
    /\ trade_statistics' = parked.trade_statistics
    /\ result_id' = parked.result_id
    /\ session' = parked.session
    /\ UNCHANGED <<stocks, daily_dates, db_results, db_trades, stvars, sweepvars, task_id, unitvars>>

\* the steps of run() on the running thread, or a switch; with a single
\* instrument, every allocation pays for a share and every held code has a
\* price row, so the entry pass always buys and the valuation never raises
NextThreads ==
    \/ Run_FetchData
    \/ Run_NoData
    \/ Run_GenerateSignals
    \/ Sim_Begin
    \/ Sim_NextDate
    \/ Sim_End
    \/ Sim_ExitSell
    \/ Sim_ExitSkip
    \/ Sim_CollectBuys
    \/ Sim_Buy
    \/ Sim_Snapshot
    \/ Run_Compute
    \/ Save_AddResult
    \/ Save_FlushRaises
    \/ Run_SaveResults
    \/ Save_CommitRaises
    \/ Caller_Rollback
    \/ Thread_Switch

SpecThreads == InitThreads /\ [][NextThreads]_vars

\* ------------------------------- calculate_performance_metrics (pure)
MaxCurveLen == 3         \* longest equity curve handed to the analyzer

\* a float result, kept as what it is (a number, nan or inf) and the sign of
\* the number
Number(sign) == [kind |-> "num", sign |-> sign]
NaN == [kind |-> "nan", sign |-> 0]
Inf == [kind |-> "inf", sign |-> 1]

Sgn(x) == IF x > 0 THEN 1 ELSE IF x < 0 THEN -1 ELSE 0

\* a / b of two non-negative floats, less one: numerator and denominator of
\* the quotient, nan for 0 / 0 and inf for a / 0
QuotientLessOne(a, b) ==
    IF b = 0 THEN (IF a = 0 THEN [kind |-> "nan", num |-> 0, den |-> 1]
                             ELSE [kind |-> "inf", num |-> 0, den |-> 1])
    ELSE [kind |-> "num", num |-> a - b, den |-> b]

\* portfolio_history['total'].pct_change().dropna(): the first row and the
\* rows whose change is nan are dropped
DailyReturns(history) ==
    SelectSeq([i \in 1..(Len(history) - 1) |->
                  QuotientLessOne(history[i + 1].total, history[i].total)],
              LAMBDA r : r.kind # "nan")

\* Series.std() with ddof = 1: nan for a single value or with an inf among
\* the values, 0 when all values are equal, positive otherwise
StdKind(returns) ==
    IF Len(returns) < 2 \/ \E i \in 1..Len(returns) : returns[i].kind = "inf" THEN "nan"
    ELSE IF \A i, j \in 1..Len(returns) :
                returns[i].num * returns[j].den = returns[j].num * returns[i].den
         THEN "zero"
         ELSE "positive"

RECURSIVE DenProduct(_)
DenProduct(returns) ==
    IF returns = <<>> THEN 1 ELSE Head(returns).den * DenProduct(Tail(returns))

\* the sign of Series.mean() of finite values
MeanSign(returns) ==
    Sgn(SumSeq([i \in 1..Len(returns) |->
                   returns[i].num * (DenProduct(returns) \div returns[i].den)]))

\* if daily_returns.empty or daily_returns.std() == 0 (nan == 0 is False)
SharpeGuard(returns) == returns = <<>> \/ StdKind(returns) = "zero"

\* calculate_sharpe_ratio with risk_free_rate = 0
calculate_sharpe_ratio(history) ==
    LET daily_returns == DailyReturns(history)
    IN IF SharpeGuard(daily_returns) THEN Number(0)
       ELSE IF StdKind(daily_returns) = "nan" THEN NaN
       ELSE Number(MeanSign(daily_returns))

\* (date.iloc[-1] - date.iloc[0]).days
TotalDays(history) == history[Len(history)].date - history[1].date

\* calculate_annualized_return: (1 + total_return) ** (365.0 / total_days) - 1
calculate_annualized_return(history) ==
    IF TotalDays(history) = 0 THEN Number(0)
    ELSE LET total_return == QuotientLessOne(history[Len(history)].total, history[1].total)
         IN IF total_return.kind = "nan" THEN NaN
            ELSE IF total_return.kind = "inf" THEN Inf
            ELSE Number(Sgn(total_return.num))

\* portfolio_history['total'].cummax() at row i
CumulativeMax(history, i) ==
    LET S == {history[k].total : k \in 1..i}
    IN CHOOSE x \in S : \A y \in S : y <= x

\* calculate_max_drawdown: abs of the least total / cumulative_max - 1, the
\* rows where it is nan skipped; nan when no row is left
calculate_max_drawdown(history) ==
    LET rows == {i \in 1..Len(history) : CumulativeMax(history, i) # 0}
    IN IF rows = {} THEN NaN
       ELSE IF \E i \in rows : history[i].total < CumulativeMax(history, i)
            THEN Number(1) ELSE Number(0)

calculate_performance_metrics(history) ==
    IF Len(history) < 2
    THEN [returned |-> TRUE, annualized_return |-> Number(0),
          sharpe_ratio |-> Number(0), max_drawdown |-> Number(0)]
    ELSE [returned |-> TRUE,
          annualized_return |-> calculate_annualized_return(history),
          sharpe_ratio |-> calculate_sharpe_ratio(history),
          max_drawdown |-> calculate_max_drawdown(history)]

\* the equity curves of a run: dates that do not decrease and totals that are
\* all 0 (no capital) or all positive
EquityCurves ==
    UNION {{h \in [1..n -> [date : Dates, total : {0, 1, MaxCapital}]] :
               /\ \A i \in 1..(n - 1) : h[i].date <= h[i + 1].date
               /\ \A i, j \in 1..n : (h[i].total = 0) = (h[j].total = 0)} :
           n \in 0..MaxCurveLen}

InitMetrics ==
    /\ pc = "pm_start"
    /\ EngineIdle
    /\ StatsIdle
    /\ SweepIdle
    /\ CallersIdle
    /\ initial_capital = MaxCapital
    /\ db_results = {}
    /\ db_trades = {}
    /\ session = EmptySession
    /\ pm_history \in EquityCurves
    /\ pm_result = [returned |-> FALSE]
    /\ wl_p = 0
    /\ wl_n = 0
    /\ wl_score = 0
    /\ identifier = "none"
    /\ custom_parameters = [kind |-> "none"]
    /\ strategy = [class |-> "none"]

Metrics_Call ==
    /\ pc = "pm_start"
    /\ pm_result' = calculate_performance_metrics(pm_history)
    /\ pc' = "pm_returned"
    /\ UNCHANGED <<pm_history, wl_p, wl_n, wl_score, identifier, custom_parameters, strategy,
                   simvars, runvars, stvars, sweepvars, callvars>>

NextMetrics == Metrics_Call

SpecMetrics == InitMetrics /\ [][NextMetrics]_vars

\* ------------------------------------------- wilson_lb in doubles (pure)
MaxTradeCount == 12      \* largest n handed to wilson_lb
WinRateStep == 10        \* distance of the win rates tried, in hundredths

\* bits of one digit of a whole number of any size, and the base
LimbBits == 15
Limb == 32768

\* bits of the significand of a double
MantissaBits == 53

\* The operations below are functions, so that every argument is a value
\* before the body is evaluated.

\* a whole number of any size: its digits to the base Limb, lowest first,
\* without leading zeros
BigNat == Seq(Nat)

Pow2[k \in Nat] == IF k = 0 THEN 1 ELSE 2 * Pow2[k - 1]

BigNorm[a \in BigNat] ==
    IF a # <<>> /\ a[Len(a)] = 0 THEN BigNorm[SubSeq(a, 1, Len(a) - 1)] ELSE a

\* -1, 0 or 1 as a is less than, equal to or greater than b
BigCmp[a \in BigNat, b \in BigNat] ==
    IF Len(a) # Len(b) THEN (IF Len(a) < Len(b) THEN -1 ELSE 1)
    ELSE IF \A k \in 1..Len(a) : a[k] = b[k] THEN 0
    ELSE LET i == CHOOSE k \in 1..Len(a) :
                     a[k] # b[k] /\ \A j \in (k + 1)..Len(a) : a[j] = b[j]
         IN IF a[i] < b[i] THEN -1 ELSE 1

BigAddC[a \in BigNat, b \in BigNat, c \in Nat] ==
    IF a = <<>> /\ b = <<>> THEN (IF c = 0 THEN <<>> ELSE <<c>>)
    ELSE LET x == IF a = <<>> THEN 0 ELSE Head(a)
             y == IF b = <<>> THEN 0 ELSE Head(b)
             sum == x + y + c
         IN <<sum % Limb>> \o BigAddC[IF a = <<>> THEN <<>> ELSE Tail(a),
                                     IF b = <<>> THEN <<>> ELSE Tail(b),
                                     sum \div Limb]

BigAdd[a \in BigNat, b \in BigNat] == BigAddC[a, b, 0]

BigSubC[a \in BigNat, b \in BigNat, c \in Nat] ==
    IF a = <<>> THEN <<>>
    ELSE LET y == IF b = <<>> THEN 0 ELSE Head(b)
             d == Head(a) - y - c
         IN <<(d + Limb) % Limb>> \o BigSubC[Tail(a), IF b = <<>> THEN <<>> ELSE Tail(b),
                                            IF d < 0 THEN 1 ELSE 0]

\* a - b for a >= b
BigSub[a \in BigNat, b \in BigNat] == BigNorm[BigSubC[a, b, 0]]

BigMulSmall[a \in BigNat, k \in Nat, c \in Nat] ==
    IF a = <<>> THEN (IF c = 0 THEN <<>> ELSE <<c>>)
    ELSE LET prod == Head(a) * k + c
         IN <<prod % Limb>> \o BigMulSmall[Tail(a), k, prod \div Limb]

\* a * Limb^q
BigShiftLimbs[a \in BigNat, q \in Nat] == IF a = <<>> THEN <<>> ELSE [i \in 1..q |-> 0] \o a

BigMul[a \in BigNat, b \in BigNat] ==
    IF a = <<>> \/ b = <<>> THEN <<>>
    ELSE BigAdd[BigMulSmall[a, Head(b), 0], BigShiftLimbs[BigMul[a, Tail(b)], 1]]

\* a * 2^k
BigShl[a \in BigNat, k \in Nat] ==
    BigShiftLimbs[BigNorm[BigMulSmall[a, Pow2[k % LimbBits], 0]], k \div LimbBits]

\* a \div 2^k
BigShr[a \in BigNat, k \in Nat] ==
    LET q == k \div LimbBits
        d == Pow2[k % LimbBits]
        t == SubSeq(a, q + 1, Len(a))
    IN BigNorm[[i \in 1..Len(t) |->
                  (t[i] \div d) + (IF i < Len(t) THEN (t[i + 1] % d) * (Limb \div d) ELSE 0)]]

BitLenSmall[x \in Nat] == IF x = 0 THEN 0 ELSE 1 + BitLenSmall[x \div 2]

BigBitLen[a \in BigNat] ==
    IF a = <<>> THEN 0 ELSE LimbBits * (Len(a) - 1) + BitLenSmall[a[Len(a)]]

\* bit i of a, bit 0 the lowest
BigBit[a \in BigNat, i \in Nat] ==
    LET q == i \div LimbBits
    IN IF q >= Len(a) THEN 0 ELSE (a[q + 1] \div Pow2[i % LimbBits]) % 2

\* the lowest k bits of a are all 0
BigLowZero[a \in BigNat, k \in Nat] == BigCmp[BigShl[BigShr[a, k], k], a] = 0

BigFromInt[n \in Nat] == IF n = 0 THEN <<>> ELSE <<n % Limb>> \o BigFromInt[n \div Limb]

\* a quotient and a remainder
QuotRem == [q : BigNat, r : BigNat]

\* restoring division of a by b over the bits hi-1..lo of a, from the
\* quotient and the remainder qr of the bits above
BigDivBits[a \in BigNat, b \in BigNat, hi \in Nat, lo \in Nat, qr \in QuotRem] ==
    IF hi = lo THEN qr
    ELSE LET r2 == BigAdd[BigShl[qr.r, 1], IF BigBit[a, hi - 1] = 1 THEN <<1>> ELSE <<>>]
             q2 == BigShl[qr.q, 1]
         IN IF BigCmp[r2, b] >= 0
            THEN BigDivBits[a, b, hi - 1, lo, [q |-> BigAdd[q2, <<1>>], r |-> BigSub[r2, b]]]
            ELSE BigDivBits[a, b, hi - 1, lo, [q |-> q2, r |-> r2]]

\* quotient and remainder of a by b, the bits of a taken in four runs
BigDivMod[a \in BigNat, b \in BigNat] ==
    LET n == BigBitLen[a]
    IN BigDivBits[a, b, n \div 4, 0,
         BigDivBits[a, b, n \div 2, n \div 4,
           BigDivBits[a, b, (3 * n) \div 4, n \div 2,
             BigDivBits[a, b, n, (3 * n) \div 4, [q |-> <<>>, r |-> <<>>]]]]]

\* the largest s with s * s <= a: the bits hi-1..lo of s decided from the
\* bits above
BigSqrtBits[a \in BigNat, hi \in Nat, lo \in Nat, s \in BigNat] ==
    IF hi = lo THEN s
    ELSE LET t == BigAdd[s, BigShl[<<1>>, hi - 1]]
         IN IF BigCmp[BigMul[t, t], a] <= 0
            THEN BigSqrtBits[a, hi - 1, lo, t]
            ELSE BigSqrtBits[a, hi - 1, lo, s]

BigSqrt[a \in BigNat] ==
    LET n == (BigBitLen[a] + 1) \div 2
    IN BigSqrtBits[a, n \div 2, 0, BigSqrtBits[a, n, n \div 2, <<>>]]

\* a double: (-1)^neg * m * 2^e with m of MantissaBits bits, or m empty for 0
Doubles == [neg : BOOLEAN, m : BigNat, e : Int]

DoubleZero == [neg |-> FALSE, m |-> <<>>, e |-> 0]

\* q * 2^e for q of MantissaBits bits, or of one more after a carry
DoubleCarry[neg \in BOOLEAN, q \in BigNat, e \in Int] ==
    IF BigBitLen[q] > MantissaBits
    THEN [neg |-> neg, m |-> BigShr[q, 1], e |-> e + 1]
    ELSE [neg |-> neg, m |-> q, e |-> e]

\* the double nearest to M * 2^E, ties to even; sticky: the exact value is
\* above M * 2^E by less than 2^E
DoubleRound[neg \in BOOLEAN, M \in BigNat, E \in Int, sticky \in BOOLEAN] ==
    IF M = <<>> THEN DoubleZero
    ELSE LET L == BigBitLen[M]
         IN IF L <= MantissaBits
            THEN [neg |-> neg, m |-> BigShl[M, MantissaBits - L], e |-> E - (MantissaBits - L)]
            ELSE LET sh == L - MantissaBits
                     q == BigShr[M, sh]
                     half == BigBit[M, sh - 1] = 1
                     rest == ~BigLowZero[M, sh - 1] \/ sticky
                     up == half /\ (rest \/ BigBit[q, 0] = 1)
                 IN DoubleCarry[neg, IF up THEN BigAdd[q, <<1>>] ELSE q, E + sh]

\* float(n) of a whole number n >= 0
DoubleFromInt[n \in Nat] == DoubleRound[FALSE, BigFromInt[n], 0, FALSE]

DoubleNeg[x \in Doubles] == IF x.m = <<>> THEN x ELSE [x EXCEPT !.neg = ~x.neg]

\* x + y
DoubleAdd[x \in Doubles, y \in Doubles] ==
    IF x.m = <<>> THEN y
    ELSE IF y.m = <<>> THEN x
    ELSE LET e == IF x.e < y.e THEN x.e ELSE y.e
             mx == BigShl[x.m, x.e - e]
             my == BigShl[y.m, y.e - e]
             c == BigCmp[mx, my]
         IN IF x.neg = y.neg THEN DoubleRound[x.neg, BigAdd[mx, my], e, FALSE]
            ELSE IF c = 0 THEN DoubleZero
            ELSE IF c > 0 THEN DoubleRound[x.neg, BigSub[mx, my], e, FALSE]
            ELSE DoubleRound[y.neg, BigSub[my, mx], e, FALSE]

\* x - y
DoubleSub[x \in Doubles, y \in Doubles] == DoubleAdd[x, DoubleNeg[y]]

\* x * y
DoubleMul[x \in Doubles, y \in Doubles] ==
    IF x.m = <<>> \/ y.m = <<>> THEN DoubleZero
    ELSE DoubleRound[x.neg # y.neg, BigMul[x.m, y.m], x.e + y.e, FALSE]

\* the double nearest to the exact quotient of which qr holds the whole
\* part and the remainder, scaled by 2^E
DoubleOfQuotient[neg \in BOOLEAN, qr \in QuotRem, E \in Int] ==
    DoubleRound[neg, qr.q, E, qr.r # <<>>]

\* x / y for y # 0
DoubleDiv[x \in Doubles, y \in Doubles] ==
    IF x.m = <<>> THEN DoubleZero
    ELSE DoubleOfQuotient[x.neg # y.neg, BigDivMod[BigShl[x.m, MantissaBits + 3], y.m],
                          x.e - y.e - (MantissaBits + 3)]

\* the double nearest to the square root of M * 2^(2 * E), of which root
\* is the whole part
DoubleOfRoot[M \in BigNat, root \in BigNat, E \in Int] ==
    DoubleRound[FALSE, root, E, BigCmp[BigMul[root, root], M] # 0]

\* the significand of x scaled for the root: M * 2^e = x with e even
RootOperand[x \in Doubles] ==
    BigShl[x.m, MantissaBits + 5 + (x.e % 2)]

\* math.sqrt(x) for x >= 0
DoubleSqrt[x \in Doubles] ==
    IF x.m = <<>> THEN DoubleZero
    ELSE DoubleOfRoot[RootOperand[x], BigSqrt[RootOperand[x]],
                      (x.e - (x.e % 2) - (MantissaBits + 5)) \div 2]

\* x <= y
DoubleLe[x \in Doubles, y \in Doubles] ==
    LET d == DoubleSub[y, x]
    IN d.m = <<>> \/ ~d.neg

\* z = 1.96
DoubleZ == DoubleDiv[DoubleFromInt[ZNum], DoubleFromInt[ZDen]]

\* float(result.win_rate) of a column value of p hundredths
DoubleWinRate[p \in Nat] == DoubleDiv[DoubleFromInt[p], DoubleFromInt[WinRateScale]]

\* (p + z*z/(2*n) - z * math.sqrt((p*(1-p) + z*z/(4*n))/n)) / (1 + z*z/n),
\* operation by operation in doubles as the interpreter evaluates it
WilsonFormula[p \in Doubles, n \in Nat, z \in Doubles] ==
    DoubleDiv[
      DoubleSub[
        DoubleAdd[p, DoubleDiv[DoubleMul[z, z], DoubleFromInt[2 * n]]],
        DoubleMul[z,
          DoubleSqrt[
            DoubleDiv[
              DoubleAdd[DoubleMul[p, DoubleSub[DoubleFromInt[1], p]],
                        DoubleDiv[DoubleMul[z, z], DoubleFromInt[4 * n]]],
              DoubleFromInt[n]]]]],
      DoubleAdd[DoubleFromInt[1], DoubleDiv[DoubleMul[z, z], DoubleFromInt[n]]]]

\* wilson_lb(p, n, z = 1.96); p in hundredths
wilson_lb_double[p \in Nat, n \in Nat] ==
    IF n = 0 THEN DoubleZero ELSE WilsonFormula[DoubleWinRate[p], n, DoubleZ]

\* the win rates tried: from 0 in steps, and 1
WinRates == {k \in 0..WinRateScale : k % WinRateStep = 0} \cup {WinRateScale}

InitWilson ==
    /\ pc = "wilson"
    /\ EngineIdle
    /\ StatsIdle
    /\ SweepIdle
    /\ CallersIdle
    /\ initial_capital = MaxCapital
    /\ db_results = {}
    /\ db_trades = {}
    /\ session = EmptySession
    /\ pm_history = <<>>
    /\ pm_result = [returned |-> FALSE]
    /\ wl_p = 0
    /\ wl_n = 0
    /\ wl_score = wilson_lb_double[wl_p, 0]
    /\ identifier = "none"
    /\ custom_parameters = [kind |-> "none"]
    /\ strategy = [class |-> "none"]

\* the score of the same win rate over one more trade
Wilson_MoreTrades ==
    /\ pc = "wilson"
    /\ wl_n < MaxTradeCount
    /\ wl_n' = wl_n + 1
    /\ wl_score' = wilson_lb_double[wl_p, wl_n']
    /\ UNCHANGED <<pc, wl_p, pm_history, pm_result, identifier, custom_parameters, strategy,
                   simvars, runvars, stvars, sweepvars, callvars>>

\* the score of the next higher win rate over the same trades
Wilson_HigherRate ==
    /\ pc = "wilson"
    /\ \E k \in WinRates :
          /\ k > wl_p
          /\ \A j \in WinRates : j > wl_p => k <= j
          /\ wl_p' = k
    /\ wl_score' = wilson_lb_double[wl_p', wl_n]
    /\ UNCHANGED <<pc, wl_n, pm_history, pm_result, identifier, custom_parameters, strategy,
                   simvars, runvars, stvars, sweepvars, callvars>>

NextWilson ==
    \/ Wilson_MoreTrades
    \/ Wilson_HigherRate

SpecWilson == InitWilson /\ [][NextWilson]_vars

\* ------------------------------------ strategy parameters of one engine
\* the identifiers of STRATEGY_MAP whose classes are modelled, and one
\* that the map does not hold
DualMovingAverage == "dual_moving_average"
Rsi == "rsi"
Identifiers == {DualMovingAverage, Rsi, "unknown"}

\* what a parameter dictionary holds under one name: nothing, a number
\* other than the default, or a value that is not a number
Absent == "absent"
ItemValues == {Absent, "number", "text"}

\* the names get_parameter_definitions declares
get_parameter_definitions(class) ==
    IF class = DualMovingAverage THEN {"short_window", "long_window"}
    ELSE {"rsi_period", "overbought_threshold", "oversold_threshold"}

\* the names __init__ reads with parameters.get(name, default)
ReadNames(class) ==
    IF class = DualMovingAverage THEN {"short_window", "long_window"}
    ELSE {"rsi_length", "oversold_threshold", "overbought_threshold"}

ParameterNames(class) == get_parameter_definitions(class) \cup ReadNames(class)

\* the parameters handed to the engine: a dictionary, a JSON text of the
\* strategy row that decodes to a list, or one that does not decode
ParameterInputs(class) ==
    {[kind |-> "dict", items |-> it] : it \in [ParameterNames(class) -> ItemValues]}
    \cup {[kind |-> "list"], [kind |-> "invalid_json"]}

\* dict.get(name, default)
DictGet(items, name) == IF items[name] = Absent THEN "default" ELSE items[name]

\* strategy_class(self.strategy_params): the attributes __init__ sets
StrategyOf(class, params) ==
    [class |-> class,
     attrs |-> [name \in ReadNames(class) |-> DictGet(params.items, name)]]

\* __init__ of the engine raises: json.loads on a text that is not JSON,
\* an identifier missing from STRATEGY_MAP, .get on a list
InitRaises(class, params) ==
    \/ params.kind = "invalid_json"
    \/ class \notin {DualMovingAverage, Rsi}
    \/ params.kind = "list"

\* generate_signals raises: a window, a length or a threshold that is not
\* a number meets rolling(), ta.rsi() or a comparison
SignalsRaise(s) == \E name \in DOMAIN s.attrs : s.attrs[name] = "text"

InitParams ==
    /\ pc = "engine_new"
    /\ EngineIdle
    /\ StatsIdle
    /\ SweepIdle
    /\ CallersIdle
    /\ initial_capital = MaxCapital
    /\ db_results = {}
    /\ db_trades = {}
    /\ session = EmptySession
    /\ pm_history = <<>>
    /\ pm_result = [returned |-> FALSE]
    /\ wl_p = 0
    /\ wl_n = 0
    /\ wl_score = 0
    /\ identifier \in Identifiers
    /\ custom_parameters \in ParameterInputs(identifier)
    /\ strategy = [class |-> "none"]

\* BacktestEngine.__init__ returns an engine holding a strategy
Engine_Init ==
    /\ pc = "engine_new"
    /\ ~InitRaises(identifier, custom_parameters)
    /\ strategy' = StrategyOf(identifier, custom_parameters)
    /\ pc' = "engine_ready"
    /\ UNCHANGED <<identifier, custom_parameters, pm_history, pm_result, wl_p, wl_n, wl_score,
                   simvars, runvars, stvars, sweepvars, callvars>>

\* BacktestEngine.__init__ raises
Engine_InitRaises ==
    /\ pc = "engine_new"
    /\ InitRaises(identifier, custom_parameters)
    /\ pc' = "engine_rejected"
    /\ UNCHANGED <<identifier, custom_parameters, strategy, pm_history, pm_result, wl_p, wl_n,
                   wl_score, simvars, runvars, stvars, sweepvars, callvars>>

\* run(): _fetch_data reads the price rows
Engine_FetchData ==
    /\ pc = "engine_ready"
    /\ pc' = "data_fetched"
    /\ UNCHANGED <<identifier, custom_parameters, strategy, pm_history, pm_result, wl_p, wl_n,
                   wl_score, simvars, runvars, stvars, sweepvars, callvars>>

\* run(): _generate_all_signals raises in generate_signals
Engine_SignalsRaise ==
    /\ pc = "data_fetched"
    /\ SignalsRaise(strategy)
    /\ pc' = "signals_raised"
    /\ UNCHANGED <<identifier, custom_parameters, strategy, pm_history, pm_result, wl_p, wl_n,
                   wl_score, simvars, runvars, stvars, sweepvars, callvars>>

\* run(): the signals are generated and _simulate_trading starts
Engine_Simulate ==
    /\ pc = "data_fetched"
    /\ ~SignalsRaise(strategy)
    /\ pc' = "simulating"
    /\ UNCHANGED <<identifier, custom_parameters, strategy, pm_history, pm_result, wl_p, wl_n,
                   wl_score, simvars, runvars, stvars, sweepvars, callvars>>

NextParams ==
    \/ Engine_Init
    \/ Engine_InitRaises
    \/ Engine_FetchData
    \/ Engine_SignalsRaise
    \/ Engine_Simulate

SpecParams == InitParams /\ [][NextParams]_vars

\* =================================================================
\* Properties
\* =================================================================
IsBuy(t) == t.trade_type = "buy"
IsSell(t) == t.trade_type = "sell"

\* sum of the amounts of the trades of the log that satisfy Test
AmountSum(trs, Test(_)) ==
    SumSeq([i \in 1..Len(trs) |-> IF Test(trs[i]) THEN trs[i].amount ELSE 0])

\* market value of the held codes at the closes of the current date
HeldValue ==
    SumSeq([i \in 1..NumCodes |->
              IF positions[i] > 0 /\ HasRow(today_rows, i)
              THEN positions[i] * today_rows[i] ELSE 0])

C2_ValueConservation ==
    (pc = "date_loop" /\ portfolio_history # <<>>) =>
        /\ Last(portfolio_history).date = trade_date
        /\ Last(portfolio_history).total = cash + HeldValue

\* a snapshot was appended while a position is open and cash is left
C2_Witness ==
    /\ pc = "date_loop"
    /\ portfolio_history # <<>>
    /\ cash > 0
    /\ \E c \in Codes : positions[c] > 0 /\ today_rows[c] > 1

\* C3 as stated: at the end of a run, buys - sells + final cash + market value
\* of the open positions equals the initial capital.
C3_Original ==
    pc = "simulated" =>
        AmountSum(trades, IsBuy) - AmountSum(trades, IsSell) + cash + HeldValue
            = initial_capital

\* C3 amended: at the end of a run, buys - sells + final cash equals the
\* initial capital, whether or not a position is still open.
C3_CapitalConservation ==
    pc = "simulated" =>
        AmountSum(trades, IsBuy) - AmountSum(trades, IsSell) + cash = initial_capital

\* a run ended after a sell and with a position still open
C3_Witness ==
    /\ pc = "simulated"
    /\ \E c \in Codes : positions[c] > 0
    /\ \E i \in 1..Len(trades) : IsSell(trades[i])

\* C4: on every date the sells come before the buys: no buy dated d precedes
\* a sell dated d in the log, and the cash split among the candidates of d is
\* the cash after all sells of d.
C4_SellBeforeBuy ==
    /\ \A i, j \in 1..Len(trades) :
         (i < j /\ trades[i].date = trades[j].date /\ IsBuy(trades[i])) => IsBuy(trades[j])
    /\ pc = "buy" =>
         /\ \A c \in Codes : ~SellsToday(c)
         /\ LET Before(t) == IsBuy(t) /\ t.date < trade_date
            IN capital_per_buy.num =
                 initial_capital - AmountSum(trades, Before) + AmountSum(trades, IsSell)

\* a buy follows a sell of the same date and was paid from its proceeds
C4_Witness ==
    \E i, j \in 1..Len(trades) :
        /\ i < j
        /\ trades[i].date = trades[j].date
        /\ IsSell(trades[i])
        /\ IsBuy(trades[j])
        /\ trades[j].amount > trades[i].cash_after - trades[i].amount

\* C6: the equity curve of a completed simulation has one snapshot per date of
\* the price frame, in strictly ascending order, and none for another date.
C6_OneSnapshotPerDate ==
    pc \in {"simulated", "computed"} \/ (pc = "returned" /\ result_id # 0) =>
        /\ Len(portfolio_history) = Cardinality(all_stocks_dates)
        /\ \A i \in 1..Len(portfolio_history) : portfolio_history[i].date \in daily_dates
        /\ \A i, j \in 1..Len(portfolio_history) :
             i < j => portfolio_history[i].date < portfolio_history[j].date

\* a completed simulation over a window with a date that has no price row
C6_Witness ==
    /\ pc = "simulated"
    /\ Len(portfolio_history) >= 1
    /\ \E d \in Dates : d \notin daily_dates /\ d < trade_date

\* C7 as stated: an instrument without a price row on a date of the calendar
\* is skipped on that date, held or not: no trade is made for it, the run does
\* not fail, and the snapshot of the date is appended, valuing only the held
\* instruments that have a price.
C7_SkipMissingPrice ==
    /\ [](\A i \in 1..Len(trades) :
            trades[i].date = trade_date => HasRow(today_rows, trades[i].stock_code))
    /\ [][(pc = "snapshot" /\ HeldWithoutPrice(today_rows, positions) # {}) =>
            /\ pc' = "date_loop"
            /\ portfolio_history' = Append(portfolio_history,
                    [date |-> trade_date, total |-> cash + HeldValue])]_vars

\* C8: with an empty price frame (no row in the window, or no known code)
\* run() returns None: no signals are generated, no simulation step runs and
\* nothing is committed to the result tables.
C8_NoDataFailure ==
    (pc # "start" /\ (stocks = {} \/ daily_dates = {})) =>
        /\ pc \in {"fetched", "returned"}
        /\ pc = "returned" => result_id = 0
        /\ ~signals_generated
        /\ trade_date = 0
        /\ portfolio_history = <<>>
        /\ trades = <<>>
        /\ db_results = {}
        /\ db_trades = {}

\* run() has returned None for known codes without a row in the window
C8_Witness ==
    /\ pc = "returned"
    /\ result_id = 0
    /\ stocks # {}
    /\ daily_dates = {}

\* ---- reference matching for the trade statistics
\* the buys of the instrument of trade j that precede it and are not matched
OpenBuys(trs, j, matched) ==
    {i \in 1..(j - 1) : IsBuy(trs[i]) /\ trs[i].stock_code = trs[j].stock_code
                         /\ i \notin matched}

RECURSIVE PairsUpTo(_, _)
\* the pairs <<buy index, sell index>> closed by the sells among the first j
\* trades: each sell takes the oldest buy of its instrument not yet matched
PairsUpTo(trs, j) ==
    IF j = 0 THEN {}
    ELSE LET prev == PairsUpTo(trs, j - 1)
             open == OpenBuys(trs, j, {pr[1] : pr \in prev})
         IN IF IsSell(trs[j]) /\ open # {} THEN prev \cup {<<Min(open), j>>} ELSE prev

ClosedPairs(trs) == PairsUpTo(trs, Len(trs))

PairProfit(trs, pr) == (trs[pr[2]].price - trs[pr[1]].price) * trs[pr[1]].quantity

WinPairs(trs) == {pr \in ClosedPairs(trs) : PairProfit(trs, pr) > 0}

RECURSIVE ProfitSum(_, _)
ProfitSum(trs, prs) ==
    IF prs = {} THEN 0
    ELSE LET pr == CHOOSE x \in prs : TRUE
         IN Abs(PairProfit(trs, pr)) + ProfitSum(trs, prs \ {pr})

\* C9: every sell closes the oldest unmatched buy of its instrument (a sell
\* without one is ignored), profit = (sell price - buy price) x buy quantity,
\* a pair wins iff profit > 0 and loses otherwise, total_trades counts the
\* records, and win_rate = wins / (wins + losses), 0 without a closed pair.
C9_FifoStatistics ==
    pc = "stats_done" =>
        LET pairs == ClosedPairs(st_trades)
            won == {pr \in pairs : PairProfit(st_trades, pr) > 0}
            lost == pairs \ won
            wins == Cardinality(won)
            losses == Cardinality(lost)
            gain == ProfitSum(st_trades, won)
            loss == ProfitSum(st_trades, lost)
        IN /\ st_result.total_trades = Len(st_trades)
           /\ st_result.winning_trades = wins
           /\ st_result.losing_trades = losses
           /\ ~st_result.win_rate.inf
           /\ IF wins + losses = 0
              THEN st_result.win_rate.num = 0
              ELSE st_result.win_rate.num * (wins + losses) = wins * st_result.win_rate.den
           /\ loss > 0 =>
                /\ ~st_result.profit_factor.inf
                /\ st_result.profit_factor.num * loss = gain * st_result.profit_factor.den

\* two lots of one instrument were open and a sell closed the older one,
\* which wins while the newer one would not
C9_Witness ==
    /\ pc = "stats_done"
    /\ \E pr \in WinPairs(st_trades) :
         \E i \in (pr[1] + 1)..(pr[2] - 1) :
            /\ IsBuy(st_trades[i])
            /\ st_trades[i].stock_code = st_trades[pr[1]].stock_code
            /\ st_trades[i].price >= st_trades[pr[2]].price

\* C10 as stated: wins + losses <= closed pairs, profit_factor is +infinity
\* iff there is no loss and at least one win, and it is 0 for the empty list.
C10_TradeClassification ==
    pc = "stats_done" =>
        /\ st_result.winning_trades + st_result.losing_trades
             <= Cardinality(ClosedPairs(st_trades))
        /\ st_result.profit_factor.inf <=>
             (st_result.losing_trades = 0 /\ st_result.winning_trades > 0)
        /\ st_trades = <<>> => st_result.profit_factor = ZeroRatio

\* ------------------------------------------------ the sweep (SpecRank)
\* the rows that this sweep has stored
StoredRows == {row \in top_strategy_stocks : row.backtest_result_id # 0}

\* C11: a candidate whose run reports fewer than min_trade_count trades is
\* at no point in the working set and is in no stored row.
C11_MinTradeCount ==
    \A r \in db_results :
        r.total_trades < min_trade_count =>
            /\ \A i \in 1..Len(top_list) : top_list[i].result.id # r.id
            /\ \A row \in StoredRows : row.backtest_result_id # r.id

\* a finished sweep that discarded a run for its trade count and stored another
C11_Witness ==
    /\ job_status = "completed"
    /\ \E r \in db_results : r.total_trades < min_trade_count
    /\ StoredRows # {}

\* the step handles one candidate of the strategy being swept
CandidateStep == pc = "sweep_code" /\ c_idx' = c_idx + 1

\* the least score of the working set
MinScore(list) ==
    CHOOSE m \in {list[i].score : i \in 1..Len(list)} :
        \A i \in 1..Len(list) : m <= list[i].score

\* C12: the working set never has more than top_n members.  A retained
\* result is appended while the set has fewer than top_n members; when the
\* set is full it takes the place of a member of least score if its score
\* is strictly greater than that score, and otherwise the set is unchanged.
\* A candidate that is not retained leaves the set unchanged.
C12_BoundedWorkingSet ==
    /\ [](Len(top_list) <= top_n)
    /\ [][CandidateStep =>
            IF discovered' # discovered
            THEN LET new == Last(discovered')
                 IN IF Len(top_list) < top_n
                    THEN /\ Len(top_list') = Len(top_list) + 1
                         /\ SubSeq(top_list', 1, Len(top_list)) = top_list
                         /\ Last(top_list').code = new.code
                         /\ Last(top_list').score = new.score
                    ELSE IF new.score > MinScore(top_list)
                    THEN \E i \in 1..Len(top_list) :
                            /\ top_list[i].score = MinScore(top_list)
                            /\ SubSeq(top_list', 1, Len(top_list) - 1) = RemoveAt(top_list, i)
                            /\ Len(top_list') = Len(top_list)
                            /\ Last(top_list').code = new.code
                            /\ Last(top_list').score = new.score
                    ELSE top_list' = top_list
            ELSE top_list' = top_list]_vars

\* a full working set whose newest member took the place of another
C12_Witness ==
    /\ top_n >= 1
    /\ Len(top_list) = top_n
    /\ Len(discovered) > top_n
    /\ Last(top_list).code = Last(discovered).code
    /\ pc = "sweep_code"

\* the codes of the rows stored for a strategy
StoredCodes(strategy_id) ==
    {row.stock_code : row \in {r \in StoredRows : r.strategy_id = strategy_id}}

\* the list of the strategy at position k of the sweep has been stored
IsStored(k) == s_idx > k

\* C13: of two retained candidates of a strategy whose runs report the same
\* win rate and trade count, hence the same score, the later-discovered one
\* is in the stored top-N only if the earlier-discovered one is.
C13_TiesKeepEarlier ==
    \A i \in 1..Len(discovered) : \A j \in (i + 1)..Len(discovered) :
        /\ discovered[i].strategy = discovered[j].strategy
        /\ discovered[i].score = discovered[j].score
        /\ discovered[i].win_rate = discovered[j].win_rate
        /\ discovered[i].trade_count = discovered[j].trade_count
        /\ \E k \in 1..Len(strategies) :
              strategies[k] = discovered[i].strategy /\ IsStored(k)
        /\ discovered[j].code \in StoredCodes(discovered[j].strategy)
        => discovered[i].code \in StoredCodes(discovered[i].strategy)

\* the rows of a strategy, whichever sweep stored them
RowsOf(strategy_id) == {r \in top_strategy_stocks : r.strategy_id = strategy_id}

\* C14: the rows of a strategy carry each rank once; once the list of a
\* strategy is stored its rows carry the ranks 1..k, k the size of the
\* working set, and a row of smaller rank has no smaller score.
C14_RankedOutput ==
    /\ \A sid \in StrategyIds : \A r1, r2 \in RowsOf(sid) : r1.rank = r2.rank => r1 = r2
    /\ \A k \in 1..Len(strategies) :
          IsStored(k) /\ strategies[k] \in strategy_table =>
              LET rows == RowsOf(strategies[k])
              IN /\ {r.rank : r \in rows} = 1..Cardinality(rows)
                 /\ \A r1, r2 \in rows : r1.rank < r2.rank => r1.win_rate_lb >= r2.win_rate_lb
                 /\ (k = s_idx - 1 => Cardinality(rows) = Len(top_list))

\* a stored list of two ranks whose best entry was discovered last
C14_Witness ==
    /\ pc = "sweep_done"
    /\ job_status = "completed"
    /\ \E r1, r2 \in StoredRows :
          /\ r1.rank = 1
          /\ r2.rank = 2
          /\ r1.win_rate_lb > r2.win_rate_lb
          /\ r1.stock_code = Last(discovered).code

\* the committed trades of a result, in the order they were made
TradesOf(id) ==
    LET rows == {t \in db_trades : t.backtest_result_id = id}
    IN [i \in 1..Cardinality(rows) |-> (CHOOSE t \in rows : t.seq = i).trade]

\* C15: every stored row carries expectancy = total_return / trade_count of
\* its run and the profit_factor that calculate_trade_statistics yields for
\* the trades of that run.
C15_Annotations ==
    \A row \in StoredRows :
        LET result == CHOOSE r \in db_results : r.id = row.backtest_result_id
            statistics == calculate_trade_statistics(TradesOf(result.id),
                                                     <<row.stock_code>>)
        IN /\ row.trade_count = statistics.total_trades
           /\ row.expectancy =
                 Ratio(result.total_return.num, result.total_return.den * row.trade_count)
           /\ row.profit_factor = statistics.profit_factor

\* ----------------------------------------------- the sweep (SpecSweep)
\* the candidate at position c of the strategy at position k was retained
IsDiscovered(k, c) ==
    \E i \in 1..Len(discovered) :
        discovered[i].strategy = strategies[k] /\ discovered[i].code = potential_codes[c]

\* C16: a candidate whose run commits nothing (it raised) is skipped: the
\* working set and the stored rows stay as they were, the sweep goes on
\* with the next candidate and does not fail.  The sweep fails only at the
\* commit that precedes the candidates of a strategy, and a sweep that
\* completes has gone through every strategy and every candidate.
C16_CandidateFailureSkipped ==
    /\ [][pc = "sweep_code" /\ c_idx <= Len(potential_codes) /\ db_results' = db_results
            => /\ top_list' = top_list
               /\ top_strategy_stocks' = top_strategy_stocks
               /\ c_idx' = c_idx + 1
               /\ pc' = "sweep_code"
               /\ s_idx' = s_idx
               /\ job_status' = job_status]_vars
    /\ [][job_status' = "failed" /\ job_status # "failed" => pc = "sweep_strategy"]_vars
    /\ [](job_status = "completed" /\ potential_codes # <<>>
            => s_idx = Len(strategies) + 1 /\ completed_tasks = total_tasks)

\* a completed sweep in which the run of the first candidate of the first
\* strategy raised and the last candidate of the last strategy was retained
C16_Witness ==
    /\ job_status = "completed"
    /\ strategy_table = StrategyIds
    /\ potential_codes # <<>>
    /\ ~IsDiscovered(1, 1)
    /\ IsDiscovered(Len(strategies), Len(potential_codes))
    /\ StoredCodes(strategies[Len(strategies)]) # {}

\* C17: the event that ends a sweep over candidates reports how many
\* candidates were processed and how many were skipped, and the two add up
\* to the number of (strategy, candidate) pairs of the sweep.
C17_ReportsCounts ==
    pc = "sweep_done" /\ potential_codes # <<>> =>
        /\ "processed" \in DOMAIN job_message
        /\ "skipped" \in DOMAIN job_message
        /\ job_message.processed + job_message.skipped = total_tasks

\* ------------------------------------------ the run states (SpecTask)
\* C18: a BacktestResult row goes from running to completed or failed and
\* stays there; a completed row carries its result and a failed row the
\* message of the error.
C18_RunLifecycle ==
    /\ [][\A r \in db_results : \A q \in db_results' :
             q.id = r.id /\ r.status \in {"completed", "failed"} => q.status = r.status]_vars
    /\ [](\A r \in db_results : r.status = "completed" => r.total_return # Null)
    /\ [](\A r \in db_results : r.status = "failed" => r.error_message # NoMessage)

\* ------------------------------------------- saving a run (Spec)
\* the committed BacktestTrade rows of a result
CommittedTradesOf(id) == {t \in db_trades : t.backtest_result_id = id}

\* C19: whatever run() does (returns an id, returns None, raises before or
\* in the middle of saving), the committed tables hold the result of the run
\* together with every one of its trades, or nothing of the run.
C19_SaveAllOrNothing ==
    /\ \A t \in db_trades : \E r \in db_results : r.id = t.backtest_result_id
    /\ \A r \in db_results : CommittedTradesOf(r.id) = BacktestTradeRows(r.id, trades)
    /\ (pc = "returned" /\ result_id # 0) => \E r \in db_results : r.id = result_id
    /\ ~(pc = "returned" /\ result_id # 0) => db_results = {} /\ db_trades = {}

\* the commit raised with the result and its trades pending
C19_Witness ==
    /\ pc = "raised"
    /\ session.results # {}
    /\ session.trades # {}
    /\ db_results = {}

\* --------------------------------- runs on two threads (SpecThreads)
\* once the simulation of a run has begun, its cash is its own capital less
\* its buys plus its sells
OwnAccount(f) ==
    (f.signals_generated /\ f.pc # "signals") =>
        f.cash = f.initial_capital - AmountSum(f.trades, IsBuy) + AmountSum(f.trades, IsSell)

\* the positions of a run are those that its own trade log opened
OwnPositions(f) ==
    \A c \in Codes :
        f.positions[c] > 0 =>
            \E i \in 1..Len(f.trades) :
                /\ IsBuy(f.trades[i])
                /\ f.trades[i].stock_code = c
                /\ f.trades[i].quantity = f.positions[c]

\* the last snapshot of a run is its own cash plus its own holdings
OwnSnapshot(f) ==
    (f.pc = "date_loop" /\ f.portfolio_history # <<>>) =>
        Last(f.portfolio_history).total =
            f.cash + SumSeq([i \in 1..NumCodes |->
                               IF f.positions[i] > 0 THEN f.positions[i] * f.today_rows[i]
                               ELSE 0])

C21_MetricsDefined ==
    pc = "pm_returned" =>
        /\ pm_result.returned
        /\ pm_result.annualized_return.kind = "num"
        /\ pm_result.sharpe_ratio.kind = "num"
        /\ pm_result.max_drawdown.kind = "num"
        /\ (Len(pm_history) < 2 \/ TotalDays(pm_history) = 0) =>
               pm_result.annualized_return = Number(0)
        /\ (Len(pm_history) < 2 \/ StdKind(DailyReturns(pm_history)) # "positive") =>
               pm_result.sharpe_ratio = Number(0)

\* ---------------------------------- the ranking score (SpecWilson)
\* C22: wilson_lb(p, 0) is 0, and the score does not decrease when n grows
\* for a fixed p nor when p grows for a fixed n.
C22_WilsonMonotone ==
    /\ [](wl_n = 0 => wl_score = DoubleZero)
    /\ [][DoubleLe[wl_score, wl_score']]_vars

\* the parameters are a dictionary that holds a number under every name the
\* selected strategy defines
WellFormedParameters ==
    /\ custom_parameters.kind = "dict"
    /\ \A name \in get_parameter_definitions(identifier) :
          custom_parameters.items[name] = "number"

\* C23: a run whose parameters are malformed or lack a parameter the strategy
\* defines never reaches the fetch of price data nor the simulation, and no
\* simulation runs on a strategy attribute that holds a substituted default
C23_ParametersRejected ==
    /\ pc \in {"data_fetched", "signals_raised", "simulating"} => WellFormedParameters
    /\ pc = "simulating" => \A name \in DOMAIN strategy.attrs : strategy.attrs[name] # "default"

\* ------------------------------- the two passes of a date (SpecSim)
\* the trade the pass records for code c: kind, quantity q at the close of
\* the date, and the cash after it
TradeOf(c, kind, q, cash_after) ==
    [stock_code |-> c, date |-> trade_date, trade_type |-> kind,
     price |-> today_rows[c], quantity |-> q, amount |-> today_rows[c] * q,
     cash_after |-> cash_after]

\* one iteration of the exit pass, on the code at idx
ExitStepSells ==
    LET c == stock_codes[idx]
    IN IF positions[c] > 0 /\ day_signal_row[c] = "sell"
       THEN /\ cash' = cash + today_rows[c] * positions[c]
            /\ positions' = [positions EXCEPT ![c] = 0]
            /\ trades' = Append(trades, TradeOf(c, "sell", positions[c], cash'))
       ELSE UNCHANGED <<cash, positions, trades>>

\* C24: the exit pass sells the whole quantity of every held instrument whose
\* signal of the date is sell, at the close of the date: the cash grows by
\* close x quantity, the position becomes 0 and one sell trade with that
\* quantity, that price and the resulting cash is appended; every other
\* instrument keeps its quantity, and when the pass is over no instrument
\* with a sell signal is held.
C24_ExitPass ==
    /\ [](pc = "collect" => \A c \in Codes : day_signal_row[c] = "sell" => positions[c] = 0)
    /\ [][pc = "sell" => ExitStepSells]_vars

\* the exit pass has sold one of two held instruments for more than its
\* quantity in cash, and the other one, without a sell signal, is still held
C24_Witness ==
    /\ pc = "collect"
    /\ trades # <<>>
    /\ Last(trades).trade_type = "sell"
    /\ Last(trades).date = trade_date
    /\ Last(trades).price > 1
    /\ \E c \in Codes : positions[c] > 0 /\ day_signal_row[c] = "hold"

\* the flat codes with a buy signal on the date
Candidates == {c \in Codes : positions[c] = 0 /\ day_signal_row[c] = "buy"}

\* the buys of the date recorded so far
IsBuyToday(t) == t.trade_type = "buy" /\ t.date = trade_date

\* the cash the exit pass of the date left: the cash with the purchases of
\* the date added back
CashAfterExitPass == cash + AmountSum(trades, IsBuyToday)

\* the allocation is split, or no entry is made: the step at the end of the
\* exit pass
EntryStepSplits ==
    IF Candidates # {} /\ cash > 1
    THEN /\ pc' = "buy"
         /\ capital_per_buy' = [num |-> cash, den |-> Cardinality(Candidates)]
         /\ {buy_signals_today'[i] : i \in 1..Len(buy_signals_today')} = Candidates
         /\ Len(buy_signals_today') = Cardinality(Candidates)
    ELSE pc' = "snapshot"

\* one iteration of the entry pass, on the candidate at idx: floor of
\* (cash / candidates) / close shares
EntryStepBuys ==
    LET c == buy_signals_today[idx]
        quantity == CashAfterExitPass \div (Len(buy_signals_today) * today_rows[c])
    IN /\ capital_per_buy' = capital_per_buy
       /\ buy_signals_today' = buy_signals_today
       /\ IF quantity > 0
          THEN /\ positions' = [positions EXCEPT ![c] = quantity]
               /\ cash' = cash - today_rows[c] * quantity
               /\ trades' = Append(trades, TradeOf(c, "buy", quantity, cash'))
          ELSE UNCHANGED <<cash, positions, trades>>

\* C25: when a flat instrument has a buy signal and the cash after the exit
\* pass exceeds 1, every candidate is allocated that cash divided by the
\* number of candidates, computed once before the first purchase of the
\* date; each candidate buys floor(allocation / close) shares, and a
\* position is opened, the cash debited and a buy trade recorded only when
\* that quantity is above 0; with cash of 1 or less, or without a candidate,
\* no purchase is made on the date.
C25_EntryPass ==
    /\ [](pc = "buy" => /\ capital_per_buy.num = CashAfterExitPass
                        /\ capital_per_buy.den = Len(buy_signals_today))
    /\ [][pc = "collect" => EntryStepSplits /\ UNCHANGED <<cash, positions, trades>>]_vars
    /\ [][pc = "buy" => EntryStepBuys]_vars
    /\ [][pc = "snapshot" => UNCHANGED <<cash, positions, trades>>]_vars

\* two candidates were allocated half of an odd amount of cash each: the
\* first has bought, the second is at hand
C25_Witness ==
    /\ pc = "buy"
    /\ idx = 2
    /\ capital_per_buy.den = 2
    /\ capital_per_buy.num % 2 = 1
    /\ trades # <<>>
    /\ IsBuyToday(Last(trades))
    /\ cash < capital_per_buy.num

\* the trades recorded for code c, in the order of the log
TradesOfCode(c) ==
    LET OfCode(t) == t.stock_code = c
    IN SelectSeq(trades, OfCode)

\* C26: every instrument has at most one open lot: its trades alternate buy,
\* sell, buy, ... from a buy, every sell has the quantity of the buy before
\* it, no position is negative, and the quantity held is that of the open
\* buy, unchanged until the sell, and 0 without one.
C26_OneOpenLot ==
    \A c \in Codes :
        LET tc == TradesOfCode(c)
        IN /\ \A i \in 1..Len(tc) :
                  /\ tc[i].trade_type = (IF i % 2 = 1 THEN "buy" ELSE "sell")
                  /\ i % 2 = 0 => tc[i].quantity = tc[i - 1].quantity
           /\ positions[c] >= 0
           /\ positions[c] = (IF Len(tc) % 2 = 1 THEN tc[Len(tc)].quantity ELSE 0)

\* one instrument was bought and sold at another price, while the lot of
\* another one is open over a later date
C26_Witness ==
    /\ pc = "snapshot"
    /\ \E c \in Codes :
          /\ Len(TradesOfCode(c)) = 2
          /\ TradesOfCode(c)[2].price # TradesOfCode(c)[1].price
    /\ \E c \in Codes :
          /\ Len(TradesOfCode(c)) = 1
          /\ TradesOfCode(c)[1].date < trade_date

\* the trades up to and including the i-th
TradesUpTo(i) == SubSeq(trades, 1, i)

\* _simulate_trading has set its locals
Simulating == signals_generated /\ pc # "signals"

\* C27: every recorded trade has amount = price x quantity and cash_after =
\* initial_capital - the amounts of the buys + the amounts of the sells
\* recorded up to and including it, and the cash of the simulator is the
\* initial capital before the first trade and the cash_after of the last
\* trade from then on, so it changes at no other point.
C27_CashLedger ==
    /\ \A i \in 1..Len(trades) :
          /\ trades[i].amount = trades[i].price * trades[i].quantity
          /\ trades[i].cash_after =
                initial_capital - AmountSum(TradesUpTo(i), IsBuy)
                                + AmountSum(TradesUpTo(i), IsSell)
    /\ Simulating =>
          cash = (IF trades = <<>> THEN initial_capital ELSE Last(trades).cash_after)

\* a lot of more than one share was bought and then sold above its price
C27_Witness ==
    /\ Len(trades) >= 2
    /\ Last(trades).trade_type = "sell"
    /\ Last(trades).quantity > 1
    /\ Last(trades).cash_after > initial_capital

\* the trades recorded before the current date
BeforeToday(t) == t.date < trade_date
IsBuyBefore(t) == IsBuy(t) /\ BeforeToday(t)
IsSellBefore(t) == IsSell(t) /\ BeforeToday(t)

\* the cash at the end of the previous date
OpeningCash ==
    initial_capital - AmountSum(trades, IsBuyBefore) + AmountSum(trades, IsSellBefore)

\* the quantity of code c held at the end of the previous date
OpeningPosition(c) ==
    LET tc == SelectSeq(TradesOfCode(c), BeforeToday)
    IN IF tc # <<>> /\ IsBuy(Last(tc)) THEN Last(tc).quantity ELSE 0

\* the holdings of the end of the previous date at the closes of the
\* current date
OpeningValue ==
    OpeningCash + SumSeq([i \in 1..NumCodes |->
                            IF OpeningPosition(i) > 0 /\ HasRow(today_rows, i)
                            THEN OpeningPosition(i) * today_rows[i] ELSE 0])

\* C28: trading at the close does not change the value of the date: the
\* snapshot of a date equals the cash and the positions of the end of the
\* previous date at the closes of the date, all held instruments having a
\* price, and the first snapshot of a run equals the initial capital.
C28_CloseTradingNeutral ==
    /\ (pc = "date_loop" /\ portfolio_history # <<>>) =>
          Last(portfolio_history).total = OpeningValue
    /\ portfolio_history # <<>> => portfolio_history[1].total = initial_capital

\* the snapshot of a date on which one lot was sold above its price and
\* another one was bought
C28_Witness ==
    /\ pc = "date_loop"
    /\ Len(portfolio_history) >= 2
    /\ Last(portfolio_history).total > initial_capital
    /\ \E i \in 1..Len(trades) : IsSell(trades[i]) /\ trades[i].date = trade_date
    /\ \E i \in 1..Len(trades) : IsBuy(trades[i]) /\ trades[i].date = trade_date

\* how many entries of the list have the score v
ScoreCount(list, v) == Cardinality({i \in 1..Len(list) : list[i].score = v})

\* the list holds the k largest scores of the retained results, each as
\* often as it occurs among them: k entries, none more often than retained,
\* and no retained score left out is above a score of the list
HoldsLargest(list, retained, k) ==
    /\ Len(list) = k
    /\ \A i \in 1..Len(list) :
          ScoreCount(list, list[i].score) <= ScoreCount(retained, list[i].score)
    /\ \A j \in 1..Len(retained) :
          ScoreCount(retained, retained[j].score) > ScoreCount(list, retained[j].score)
              => \A i \in 1..Len(list) : retained[j].score <= list[i].score

\* C29: when the candidates of a strategy have all been evaluated and top_n
\* is at least 1, the scores of the working set are the top_n largest scores
\* of the retained results, counted with multiplicity, or all of them when
\* fewer than top_n were retained, whatever the runs returned in whatever
\* order.
C29_TopScoresKept ==
    (top_n >= 1 /\ IsStored(1)) =>
        HoldsLargest(top_list, discovered,
                     IF Len(discovered) < top_n THEN Len(discovered) ELSE top_n)

\* three results were retained for two places, the best of them last, and
\* the first one was dropped
C29_Witness ==
    /\ IsStored(1)
    /\ top_n = 2
    /\ Len(discovered) = 3
    /\ discovered[3].score > discovered[2].score
    /\ discovered[2].score > discovered[1].score
    /\ Len(top_list) = 2

\* ------------------------------------ two sweeps at once (SpecTwoSweeps)
\* rank, code and run of the stored rows of the strategy
StoredList(strategy_id) ==
    {[rank |-> r.rank, stock_code |-> r.stock_code,
      backtest_result_id |-> r.backtest_result_id] :
        r \in {row \in top_strategy_stocks : row.strategy_id = strategy_id}}

\* rank, code and run of the rows of a sorted working set
RankedList(list) ==
    {[rank |-> FirstRank + i - 1, stock_code |-> list[i].code,
      backtest_result_id |-> list[i].result.id] : i \in 1..Len(list)}

\* the sweep of the frame went past the deletion of the old rows
HasSwept(f) == f.pc = "sweep_done" /\ f.c_idx > Len(potential_codes)

\* C30: when two sweeps of the same strategy have run at once and both are
\* over, one of them at least past its deletion of the old rows, the stored
\* rows of the strategy are the ranked list of one of the two, with each of
\* the ranks 1..k once: no interleaving of the deletion of one with the
\* insertion of the other leaves rows of both, a rank twice, or no rows
\* where both lists have some.
C30_OneListStored ==
    (pc = "sweep_done" /\ parked.pc = "sweep_done" /\ (HasSwept(SweepFrame) \/ HasSwept(parked)))
    => /\ \/ /\ HasSwept(SweepFrame)
             /\ StoredList(1) = RankedList(top_list)
          \/ /\ HasSwept(parked)
             /\ StoredList(1) = RankedList(parked.top_list)
       /\ {r.rank : r \in StoredList(1)} = 1..Cardinality(StoredList(1))
       /\ Cardinality({row \in top_strategy_stocks : row.strategy_id = 1})
             = Cardinality(StoredList(1))

\* both sweeps are over with lists of different codes: one has stored its
\* list and the other one has failed on the ranks
C30_Witness ==
    /\ pc = "sweep_done"
    /\ parked.pc = "sweep_done"
    /\ HasSwept(SweepFrame)
    /\ HasSwept(parked)
    /\ job_status = "failed"
    /\ parked.job_status = "completed"
    /\ top_list # <<>>
    /\ {top_list[i].code : i \in 1..Len(top_list)}
          # {parked.top_list[i].code : i \in 1..Len(parked.top_list)}
    /\ StoredList(1) = RankedList(parked.top_list)

====
